---- MODULE Spec2Model ----
(***************************************************************************)
(* Verification model of neil793/svd-indexer: the hybrid retrieval         *)
(* ranking pipeline (src/retrieval) and the register deduplication stage   *)
(* of the indexing pipeline (src/indexer).                                 *)
(*                                                                         *)
(* Python strings are sequences of one-character strings, so that          *)
(* str.upper, str.lower, str.startswith, slicing and string comparison     *)
(* are computed and not assumed.  Scores are exact rationals written as    *)
(* integers in units of 1/ScoreOne; the values the store and the           *)
(* cross-encoder deliver are chosen so that every product below is exact.  *)
(***************************************************************************)
EXTENDS Integers, Sequences, FiniteSets, TLC

VARIABLES use_reranker, pc, call, base, rr_raw, iter_order, boosted,
          reranked, final, returned, first_returned, replay,
          qpc, q_in, qinfo,
          ipc, registers, deduplicated,
          bpc, batch, groups, merged, chunks

vars == <<use_reranker, pc, call, base, rr_raw, iter_order, boosted,
          reranked, final, returned, first_returned, replay,
          qpc, q_in, qinfo,
          ipc, registers, deduplicated,
          bpc, batch, groups, merged, chunks>>

searchVars == <<use_reranker, pc, call, base, rr_raw, iter_order, boosted,
                reranked, final, returned, first_returned, replay>>

queryVars == <<qpc, q_in, qinfo>>

indexVars == <<ipc, registers, deduplicated>>

buildVars == <<bpc, batch, groups, merged, chunks>>

----------------------------------------------------------------------------
(* Bounds of the model *)

MaxHits == 2

MaxTopK == 2

MaxQueryWords == 3

MaxRegisters == 3

----------------------------------------------------------------------------
(* Python values *)

\* None, distinct from every string (also from the string "None")
None == <<"NONE_VALUE">>

Truthy(v) == v /= None /\ v /= <<>>

\* Python's  a or b
Or(a, b) == IF Truthy(a) THEN a ELSE b

Digits == <<"0", "1", "2", "3", "4", "5", "6", "7", "8", "9">>

UpperLetters == <<"A", "B", "C", "D", "E", "F", "G", "H", "I", "J", "K", "L", "M",
                  "N", "O", "P", "Q", "R", "S", "T", "U", "V", "W", "X", "Y", "Z">>

LowerLetters == <<"a", "b", "c", "d", "e", "f", "g", "h", "i", "j", "k", "l", "m",
                  "n", "o", "p", "q", "r", "s", "t", "u", "v", "w", "x", "y", "z">>

Range(s) == {s[i] : i \in 1..Len(s)}

IndexOf(c, s) == CHOOSE i \in 1..Len(s) : s[i] = c

Chars == Range(Digits) \cup Range(UpperLetters) \cup Range(LowerLetters)
           \cup {"_", " ", "?", "/", ",", "[", "]", ":", "(", ")", "-", "@", "."}

\* code point of a character (ASCII)
CodePoint == [c \in Chars |->
                CASE c \in Range(Digits) -> 47 + IndexOf(c, Digits)
                  [] c \in Range(UpperLetters) -> 64 + IndexOf(c, UpperLetters)
                  [] c \in Range(LowerLetters) -> 96 + IndexOf(c, LowerLetters)
                  [] c = "_" -> 95
                  [] c = " " -> 32
                  [] c = "?" -> 63
                  [] c = "/" -> 47
                  [] c = "," -> 44
                  [] c = "[" -> 91
                  [] c = "]" -> 93
                  [] c = ":" -> 58
                  [] c = "(" -> 40
                  [] c = ")" -> 41
                  [] c = "-" -> 45
                  [] c = "@" -> 64
                  [] c = "." -> 46]

UpperChar == [c \in Chars |->
                IF c \in Range(LowerLetters)
                  THEN UpperLetters[IndexOf(c, LowerLetters)] ELSE c]

LowerChar == [c \in Chars |->
                IF c \in Range(UpperLetters)
                  THEN LowerLetters[IndexOf(c, UpperLetters)] ELSE c]

\* str.upper / str.lower
Upper(s) == [i \in 1..Len(s) |-> UpperChar[s[i]]]

Lower(s) == [i \in 1..Len(s) |-> LowerChar[s[i]]]

\* str.startswith
StartsWith(s, p) == Len(p) <= Len(s) /\ SubSeq(s, 1, Len(p)) = p

\* a < b on Python strings: lexicographic by code point
RECURSIVE StrLess(_, _)
StrLess(a, b) ==
    IF b = <<>> THEN FALSE
    ELSE IF a = <<>> THEN TRUE
    ELSE IF a[1] = b[1] THEN StrLess(Tail(a), Tail(b))
    ELSE CodePoint[a[1]] < CodePoint[b[1]]

\* sorted(set of strings)
RECURSIVE SortedStrings(_)
SortedStrings(S) ==
    IF S = {} THEN <<>>
    ELSE LET m == CHOOSE x \in S : \A y \in S \ {x} : StrLess(x, y)
         IN  <<m>> \o SortedStrings(S \ {m})

\* str.strip on blanks
RECURSIVE LStrip(_)
LStrip(s) == IF s /= <<>> /\ s[1] = " " THEN LStrip(Tail(s)) ELSE s

RECURSIVE RStrip(_)
RStrip(s) == IF s /= <<>> /\ s[Len(s)] = " "
               THEN RStrip(SubSeq(s, 1, Len(s) - 1)) ELSE s

Strip(s) == RStrip(LStrip(s))

\* the sort keys of the retrieval pipeline: (-score, source_id or "") in
\* post_process and _apply_post_rerank_penalties, -score alone in rerank
KeyLess(x, y, by_source_id) ==
    \/ x.score > y.score
    \/ /\ by_source_id
       /\ x.score = y.score
       /\ StrLess(Or(x.source_id, <<>>), Or(y.source_id, <<>>))

\* list.sort(key=...): stable insertion sort
RECURSIVE InsertSorted(_, _, _)
InsertSorted(x, s, by_source_id) ==
    IF s = <<>> THEN <<x>>
    ELSE IF KeyLess(x, s[1], by_source_id) THEN <<x>> \o s
    ELSE <<s[1]>> \o InsertSorted(x, Tail(s), by_source_id)

RECURSIVE StableSort(_, _)
StableSort(s, by_source_id) ==
    IF s = <<>> THEN <<>>
    ELSE InsertSorted(s[Len(s)],
                      StableSort(SubSeq(s, 1, Len(s) - 1), by_source_id),
                      by_source_id)

\* s[:n] for n >= 0
Take(s, n) == SubSeq(s, 1, IF n < Len(s) THEN n ELSE Len(s))

----------------------------------------------------------------------------
(* src/retrieval/hybrid_retriever.py: query preprocessing *)

IsWordChar(c) == c \in Range(Digits) \cup Range(UpperLetters)
                         \cup Range(LowerLetters) \cup {"_"}

\* TOKEN_RE.findall: the maximal runs of [a-zA-Z0-9_]
RECURSIVE TokScan(_, _)
TokScan(s, cur) ==
    IF s = <<>> THEN (IF cur = <<>> THEN <<>> ELSE <<cur>>)
    ELSE IF IsWordChar(s[1]) THEN TokScan(Tail(s), Append(cur, s[1]))
    ELSE (IF cur = <<>> THEN <<>> ELSE <<cur>>) \o TokScan(Tail(s), <<>>)

TOKEN_RE_findall(s) == TokScan(s, <<>>)

HexChars == Range(Digits) \cup {"a", "b", "c", "d", "e", "f",
                                "A", "B", "C", "D", "E", "F"}

\* ADDR_RE = \b0x[0-9a-fA-F]+\b : both ends are word boundaries, so a match
\* is a whole token of the form 0x<hex digits>
IsAddrToken(t) == /\ Len(t) >= 3
                  /\ t[1] = "0"
                  /\ t[2] = "x"
                  /\ \A i \in 3..Len(t) : t[i] \in HexChars

ADDR_RE_findall(s) == SelectSeq(TOKEN_RE_findall(s), IsAddrToken)

\* REG_HINT_RE = ^[A-Z][A-Z0-9_]{1,15}$
REG_HINT_RE_match(t) ==
    /\ Len(t) >= 2
    /\ Len(t) <= 16
    /\ t[1] \in Range(UpperLetters)
    /\ \A i \in 2..Len(t) : t[i] \in Range(UpperLetters) \cup Range(Digits) \cup {"_"}

PERIPH_TRIGGERS == <<
    [trigger |-> <<"u","a","r","t">>,     fams |-> {<<"U","A","R","T">>, <<"U","S","A","R","T">>}],
    [trigger |-> <<"u","s","a","r","t">>, fams |-> {<<"U","S","A","R","T">>}],
    [trigger |-> <<"g","p","i","o">>,     fams |-> {<<"G","P","I","O">>}],
    [trigger |-> <<"d","m","a">>,         fams |-> {<<"D","M","A">>}],
    [trigger |-> <<"s","p","i">>,         fams |-> {<<"S","P","I">>}],
    [trigger |-> <<"i","2","c">>,         fams |-> {<<"I","2","C">>}],
    [trigger |-> <<"t","i","m">>,         fams |-> {<<"T","I","M">>}],
    [trigger |-> <<"r","c","c">>,         fams |-> {<<"R","C","C">>}],
    [trigger |-> <<"a","d","c">>,         fams |-> {<<"A","D","C">>}],
    [trigger |-> <<"d","a","c">>,         fams |-> {<<"D","A","C">>}],
    [trigger |-> <<"c","a","n">>,         fams |-> {<<"C","A","N">>}],
    [trigger |-> <<"u","s","b">>,         fams |-> {<<"U","S","B">>}] >>

P_OTG_FS == <<"O","T","G","_","F","S">>

P_OTG_HS == <<"O","T","G","_","H","S">>

P_OTG == <<"O","T","G">>

P_USB == <<"U","S","B">>

P_STK == <<"S","T","K">>

P_SYSTICK == <<"S","Y","S","T","I","C","K">>

P_WWDG == <<"W","W","D","G">>

P_IWDG == <<"I","W","D","G">>

T_dma == <<"d","m","a">>

T_usb == <<"u","s","b">>

T_timer == <<"t","i","m","e","r">>

T_tim == <<"t","i","m">>

T_systick == <<"s","y","s","t","i","c","k">>

T_prescaler == <<"p","r","e","s","c","a","l","e","r">>

T_i2c == <<"i","2","c">>

\* the I2C rule without its test for "usb"
PenaltySet_i2c_ignores_usb(tokset) ==
    (IF T_dma \in tokset /\ T_usb \notin tokset
       THEN {P_OTG_FS, P_OTG_HS, P_OTG, P_USB} ELSE {})
    \cup
    (IF (\E t \in {T_timer, T_tim} : t \in tokset) /\ T_systick \notin tokset
       THEN {P_STK, P_SYSTICK} ELSE {})
    \cup
    (IF \E t \in {T_timer, T_tim, T_prescaler} : t \in tokset
       THEN {P_WWDG, P_IWDG} ELSE {})
    \cup
    (IF T_i2c \in tokset
       THEN {P_OTG_FS, P_OTG_HS, P_USB} ELSE {})

\* the DMA rule without its test for "usb"
PenaltySet_dma_ignores_usb(tokset) ==
    (IF T_dma \in tokset
       THEN {P_OTG_FS, P_OTG_HS, P_OTG, P_USB} ELSE {})
    \cup
    (IF (\E t \in {T_timer, T_tim} : t \in tokset) /\ T_systick \notin tokset
       THEN {P_STK, P_SYSTICK} ELSE {})
    \cup
    (IF \E t \in {T_timer, T_tim, T_prescaler} : t \in tokset
       THEN {P_WWDG, P_IWDG} ELSE {})
    \cup
    (IF T_i2c \in tokset /\ T_usb \notin tokset
       THEN {P_OTG_FS, P_OTG_HS, P_USB} ELSE {})

\* lines 50-67: the negative peripheral hints
PenaltySet(tokset) ==
    (IF T_dma \in tokset /\ T_usb \notin tokset
       THEN {P_OTG_FS, P_OTG_HS, P_OTG, P_USB} ELSE {})
    \cup
    (IF (\E t \in {T_timer, T_tim} : t \in tokset) /\ T_systick \notin tokset
       THEN {P_STK, P_SYSTICK} ELSE {})
    \cup
    (IF \E t \in {T_timer, T_tim, T_prescaler} : t \in tokset
       THEN {P_WWDG, P_IWDG} ELSE {})
    \cup
    (IF T_i2c \in tokset /\ T_usb \notin tokset
       THEN {P_OTG_FS, P_OTG_HS, P_USB} ELSE {})

preprocess_query(query) ==
    LET raw == query
        clean == Lower(Strip(query))
        rawtoks == TOKEN_RE_findall(clean)
        tokens == [i \in 1..Len(rawtoks) |-> Lower(rawtoks[i])]
        address_hints == ADDR_RE_findall(raw)
        tokset == Range(tokens)
        peripheral_hints ==
            UNION {PERIPH_TRIGGERS[i].fams :
                     i \in {j \in 1..Len(PERIPH_TRIGGERS) :
                              PERIPH_TRIGGERS[j].trigger \in tokset}}
        register_hints == {t \in Range(TOKEN_RE_findall(raw)) : REG_HINT_RE_match(t)}
        peripheral_penalties == PenaltySet(tokset)
    IN  [raw |-> raw,
         clean |-> clean,
         tokens |-> tokens,
         peripheral_hints |-> SortedStrings(peripheral_hints),
         register_hints |-> SortedStrings(register_hints),
         address_hints |-> address_hints,
         peripheral_penalties |-> SortedStrings(peripheral_penalties)]

----------------------------------------------------------------------------
(* src/retrieval/hybrid_retriever.py: ranking pass *)

\* 1.0 in score units
ScoreOne == 1600

\* score *= 1.5, 1.4, 0.5, 0.1 on exact rationals
\* score /= 1.5
Times1_5_divides(s) == (s * 2) \div 3

Times1_5(s) == (s * 3) \div 2

Times1_4(s) == (s * 7) \div 5

Times0_5(s) == s \div 2

Times0_1(s) == s \div 10

FAMILY_PREFIXES == << <<"U","S","A","R","T">>, <<"U","A","R","T">>, <<"G","P","I","O">>,
                      <<"S","P","I">>, <<"I","2","C">>, <<"T","I","M">>, <<"R","C","C">>,
                      <<"A","D","C">>, <<"D","A","C">>, <<"C","A","N">>, <<"U","S","B">>,
                      <<"O","T","G">> >>

\* the for loop of _periph_family: the first prefix of the list that matches
RECURSIVE FirstFamily(_, _)
FirstFamily(p, fams) ==
    IF fams = <<>> THEN p
    ELSE IF StartsWith(p, fams[1]) THEN fams[1]
    ELSE FirstFamily(p, Tail(fams))

_periph_family(periph) == FirstFamily(Upper(Or(periph, <<>>)), FAMILY_PREFIXES)

\* the hint compared with the peripheral name itself, not with its family
PeripheralMatches_by_name(peripheral, q_periph) ==
    q_periph /= {} /\ Upper(peripheral) \in q_periph

\* Boost 1 (lines 113-117): the condition under which score *= 1.5
PeripheralMatches(peripheral, q_periph) ==
    q_periph /= {} /\ _periph_family(peripheral) \in q_periph

\* the register name compared as it is written
RegisterMatches_case_sensitive(register, q_regs) ==
    q_regs /= {} /\ register \in q_regs

\* Boost 2 (lines 120-122): the condition under which score *= 1.4
RegisterMatches(register, q_regs) ==
    q_regs /= {} /\ Upper(register) \in q_regs

\* the loop without its break: every matching prefix halves the score
RECURSIVE PenaltyLoop_no_break(_, _, _)
PenaltyLoop_no_break(peripheral_upper, order, acc) ==
    IF order = <<>> THEN acc
    ELSE IF StartsWith(peripheral_upper, order[1])
           THEN PenaltyLoop_no_break(peripheral_upper, Tail(order),
                                     <<Times0_5(acc[1]), TRUE>>)
    ELSE PenaltyLoop_no_break(peripheral_upper, Tail(order), acc)

\* Penalty 1 (lines 125-130): the loop over q_penalties in a given iteration
\* order, left at the first match; acc is <<score, peripheral_penalty>>
RECURSIVE PenaltyLoop(_, _, _)
PenaltyLoop(peripheral_upper, order, acc) ==
    IF order = <<>> THEN acc
    ELSE IF StartsWith(peripheral_upper, order[1])
           THEN <<Times0_5(acc[1]), TRUE>>
    ELSE PenaltyLoop(peripheral_upper, Tail(order), acc)

\* a trace written before the penalty is applied
BoostHit_trace_before_penalty(r, query_info) ==
    LET q_periph == Range(query_info.peripheral_hints)
        q_regs == {Upper(h) : h \in Range(query_info.register_hints)}
        q_penalties == Range(query_info.peripheral_penalties)
        payload == r.metadata
        score0 == r.score
        peripheral == Or(r.peripheral, Or(payload.peripheral, <<>>))
        register == Or(r.register, Or(payload.register, <<>>))
        peripheral_upper == Upper(peripheral)
        peripheral_match == PeripheralMatches(peripheral, q_periph)
        score1 == IF peripheral_match THEN Times1_5(score0) ELSE score0
        register_match == RegisterMatches(register, q_regs)
        score2 == IF register_match THEN Times1_4(score1) ELSE score1
        pen == PenaltyLoop(peripheral_upper, SortedStrings(q_penalties),
                           <<score2, FALSE>>)
        score == pen[1]
        peripheral_penalty == pen[2]
    IN  [r EXCEPT
           !.score = score,
           !.metadata = [_debug |->
               [qdrant_hybrid_score |-> r.score,
                post_boost_score |-> score2,
                applied_boosts |-> [peripheral_match |-> peripheral_match,
                                    register_match |-> register_match,
                                    peripheral_penalty |-> peripheral_penalty],
                peripheral_penalties_active |-> SortedStrings(q_penalties)]]
               @@ payload]

\* the body of the for loop of post_process (lines 100-149) for one hit
BoostHit(r, query_info) ==
    LET q_periph == Range(query_info.peripheral_hints)
        q_regs == {Upper(h) : h \in Range(query_info.register_hints)}
        q_penalties == Range(query_info.peripheral_penalties)
        payload == r.metadata
        score0 == r.score
        peripheral == Or(r.peripheral, Or(payload.peripheral, <<>>))
        register == Or(r.register, Or(payload.register, <<>>))
        peripheral_upper == Upper(peripheral)
        peripheral_match == PeripheralMatches(peripheral, q_periph)
        score1 == IF peripheral_match THEN Times1_5(score0) ELSE score0
        register_match == RegisterMatches(register, q_regs)
        score2 == IF register_match THEN Times1_4(score1) ELSE score1
        pen == PenaltyLoop(peripheral_upper, SortedStrings(q_penalties),
                           <<score2, FALSE>>)
        score == pen[1]
        peripheral_penalty == pen[2]
    IN  [r EXCEPT
           !.score = score,
           !.metadata = [_debug |->
               [qdrant_hybrid_score |-> r.score,
                post_boost_score |-> score,
                applied_boosts |-> [peripheral_match |-> peripheral_match,
                                    register_match |-> register_match,
                                    peripheral_penalty |-> peripheral_penalty],
                peripheral_penalties_active |-> SortedStrings(q_penalties)]]
               @@ payload]

\* out kept from one call to the next instead of starting empty
post_process_keeps_out(results, query_info) ==
    StableSort(boosted \o [i \in 1..Len(results) |-> BoostHit(results[i], query_info)],
               TRUE)

\* a fourth rule: device_summary hits times 0.7 under a query with hints
post_process_downweights_summaries(results, query_info) ==
    StableSort([i \in 1..Len(results) |->
                  LET h == BoostHit(results[i], query_info)
                  IN  IF /\ h.type = "device_summary"
                         /\ \/ query_info.peripheral_hints /= <<>>
                            \/ query_info.register_hints /= <<>>
                        THEN [h EXCEPT !.score = (h.score * 7) \div 10]
                        ELSE h],
               TRUE)

\* a sort on the score alone, without the source-id tie-break
post_process_sorts_by_score_only(results, query_info) ==
    StableSort([i \in 1..Len(results) |-> BoostHit(results[i], query_info)], FALSE)

post_process(results, query_info) ==
    StableSort([i \in 1..Len(results) |-> BoostHit(results[i], query_info)], TRUE)

----------------------------------------------------------------------------
(* src/retrieval/reranker.py *)

\* raw cross-encoder scores (logits) the model names, and their images under
\* 1 / (1 + exp(-x)):  sigmoid(-ln 3) = 1/4,  sigmoid(0) = 1/2
RawScores == {"-ln3", "0"}

Sigmoid(x) == CASE x = "-ln3" -> ScoreOne \div 4
                [] x = "0" -> ScoreOne \div 2

\* hybrid_weight * original_score + rerank_weight * rerank_score with the
\* weights 0.5 / 0.5 that search passes
Combine(original_score, rerank_score) == (original_score + rerank_score) \div 2

\* lines 88-115 for result i; rerank_scores is model.predict(pairs)
RerankHit(result, raw) ==
    LET original_score == result.score
        rerank_score == Sigmoid(raw)
        final_score == Combine(original_score, rerank_score)
        debug == [rerank_score |-> rerank_score,
                  rerank_score_raw |-> raw,
                  hybrid_score |-> original_score,
                  combined |-> TRUE]
                 @@ result.metadata._debug
    IN  [result EXCEPT
           !.score = final_score,
           !.metadata = [_debug |-> debug] @@ result.metadata]

rerank(results, rerank_scores, top_k) ==
    IF results = <<>> THEN results
    ELSE Take(StableSort([i \in 1..Len(results) |->
                            RerankHit(results[i], rerank_scores[i])], FALSE),
              top_k)

----------------------------------------------------------------------------
(* src/retrieval/hybrid_retriever.py: HybridRetriever *)

\* lines 206-225 for one result; order is the iteration order of q_penalties
RECURSIVE PostPenaltyLoop(_, _)
PostPenaltyLoop(r, order) ==
    IF order = <<>> THEN r
    ELSE IF StartsWith(Upper(Or(r.peripheral, <<>>)), order[1])
           THEN [r EXCEPT
                   !.score = Times0_1(r.score),
                   !.metadata = [_debug |->
                       [post_rerank_penalty |-> TRUE,
                        pre_penalty_score |-> r.score,
                        penalty_applied |-> order[1]]
                       @@ r.metadata._debug]
                     @@ r.metadata]
    ELSE PostPenaltyLoop(r, Tail(order))

\* the pass without the sort that ends it
_apply_post_rerank_penalties_unsorted(results, query_info, order) ==
    IF query_info.peripheral_penalties = <<>> THEN results
    ELSE [i \in 1..Len(results) |-> PostPenaltyLoop(results[i], order)]

_apply_post_rerank_penalties(results, query_info, order) ==
    IF query_info.peripheral_penalties = <<>> THEN results
    ELSE StableSort([i \in 1..Len(results) |-> PostPenaltyLoop(results[i], order)],
                    TRUE)

\* the orders in which a set can be iterated
RECURSIVE Orders(_)
Orders(S) ==
    IF S = {} THEN {<<>>}
    ELSE UNION {{<<x>> \o o : o \in Orders(S \ {x})} : x \in S}

\* The penalties are a Python set of strings: its iteration order depends on
\* the hash seed of the process.  Only the relative order of the prefixes
\* that match some result can be observed, so the rest follows sorted.
IterationOrders(results, q_penalties) ==
    LET matching == {p \in q_penalties :
                       \E i \in 1..Len(results) :
                          StartsWith(Upper(Or(results[i].peripheral, <<>>)), p)}
    IN  {o \o SortedStrings(q_penalties \ matching) : o \in Orders(matching)}

----------------------------------------------------------------------------
(* The vector store: src/retrieval/qdrant_store.py *)

A_0x40 == <<"0","x","4","0">>

A_0x50 == <<"0","x","5","0">>

\* payloads of the indexed collection (the text field, which only the
\* cross-encoder reads, is left out)
Corpus == {
    [source_id |-> <<"a">>, type |-> "register",
     peripheral |-> <<"G","P","I","O","A">>, register |-> <<"M","O","D","E","R">>,
     address |-> A_0x40],
    [source_id |-> <<"b">>, type |-> "register",
     peripheral |-> <<"O","T","G","_","F","S">>, register |-> <<"C","R">>,
     address |-> A_0x50],
    [source_id |-> <<"c">>, type |-> "register",
     peripheral |-> <<"D","M","A","1">>, register |-> <<"c","r">>,
     address |-> A_0x40],
    [source_id |-> None, type |-> "device_summary",
     peripheral |-> <<"G","P","I","O","A"," ","S","T","K">>, register |-> None,
     address |-> None],
    [source_id |-> <<"a","b">>, type |-> "peripheral_summary",
     peripheral |-> <<"S","T","K">>, register |-> None,
     address |-> None],
    [source_id |-> <<"B">>, type |-> "register",
     peripheral |-> <<"u","s","b">>, register |-> <<"V","A","L">>,
     address |-> A_0x50] }

\* fused scores the store delivers: reciprocal-rank fusion sums 1/(k0 + rank),
\* so they are positive
StoreScores == {ScoreOne \div 4, ScoreOne \div 2}

\* QdrantStore._to_result
_to_result(score, payload) ==
    [score |-> score,
     source_id |-> payload.source_id,
     type |-> payload.type,
     peripheral |-> payload.peripheral,
     register |-> payload.register,
     address |-> payload.address,
     metadata |-> payload]

\* _build_optional_filter: the address to match, or None
_build_optional_filter(query_info) ==
    IF query_info.address_hints /= <<>> THEN query_info.address_hints[1] ELSE None

\* what search_hybrid may return: at most limit points of the collection,
\* each once, best score first, all of them passing the filter
StoreResponses(limit, qfilter) ==
    LET Points == {pt \in [score : StoreScores, payload : Corpus] :
                     qfilter = None \/ pt.payload.address = qfilter}
    IN  {res \in UNION {[1..n -> Points] : n \in 0..limit} :
           /\ \A i, j \in 1..Len(res) : i < j => res[i].payload /= res[j].payload
           /\ \A i \in 1..(Len(res) - 1) : res[i].score >= res[i + 1].score}

search_hybrid(res) == [i \in 1..Len(res) |-> _to_result(res[i].score, res[i].payload)]

\* queries put to the retriever
SearchQueries == {
    <<"g","p","i","o"," ","M","O","D","E","R">>,
    <<"D","M","A"," ","C","R","?">>,
    <<"d","m","a"," ","u","s","b">>,
    <<"g","p","i","o"," ","d","m","a">>,
    <<"t","i","m","e","r"," ","V","A","L">>,
    <<"l","i","s","t"," ","a","l","l">>,
    <<" ","0","x","4","0"," ","i","2","c">> }

----------------------------------------------------------------------------
(* HybridRetriever.search *)

NoCall == [query |-> <<>>, top_k |-> 0, rerank_top_n |-> 0,
           qi |-> None, qfilter |-> None]

\* HybridRetriever.__init__
InitSearch ==
    /\ use_reranker \in BOOLEAN
    /\ pc = "idle"
    /\ call = NoCall
    /\ base = <<>>
    /\ rr_raw = <<>>
    /\ iter_order = <<>>
    /\ boosted = <<>>
    /\ reranked = <<>>
    /\ final = <<>>
    /\ returned = <<>>
    /\ first_returned = <<>>
    /\ replay = FALSE

\* lines 249-259: preprocess the query, build the filter, query the store
Fetch(query, top_k, rerank_top_n) ==
    /\ pc = "idle"
    /\ LET qi == preprocess_query(query)
           qfilter == _build_optional_filter(qi)
       IN  /\ call' = [query |-> query, top_k |-> top_k,
                       rerank_top_n |-> rerank_top_n, qi |-> qi, qfilter |-> qfilter]
           /\ \E res \in StoreResponses(IF use_reranker THEN rerank_top_n ELSE top_k,
                                        qfilter) :
                 base' = search_hybrid(res)
    /\ pc' = "fetched"
    /\ UNCHANGED <<use_reranker, rr_raw, iter_order, boosted, reranked, final,
                   returned, first_returned, replay>>

\* a second invocation with the same query and arguments, to which the store
\* gives the same response
FetchAgain ==
    /\ pc = "done"
    /\ ~replay
    /\ replay' = TRUE
    /\ first_returned' = returned
    /\ pc' = "fetched"
    /\ UNCHANGED <<use_reranker, call, base, rr_raw, iter_order, boosted, reranked,
                   final, returned>>

\* line 262
Boost ==
    /\ pc = "fetched"
    /\ boosted' = post_process(base, call.qi)
    /\ pc' = "boosted"
    /\ UNCHANGED <<use_reranker, call, base, rr_raw, iter_order, reranked, final,
                   returned, first_returned, replay>>

\* line 280: no reranker
ReturnBoosted ==
    /\ pc = "boosted"
    /\ ~use_reranker
    /\ returned' = Take(boosted, call.top_k)
    /\ pc' = "done"
    /\ UNCHANGED <<use_reranker, call, base, rr_raw, iter_order, boosted, reranked,
                   final, first_returned, replay>>

\* lines 265-274: the cross-encoder scores the pairs; in a repeated
\* invocation it gives the scores it gave before
Rerank ==
    /\ pc = "boosted"
    /\ use_reranker
    /\ LET results == Take(boosted, call.rerank_top_n)
       IN  \E scores \in [1..Len(results) -> RawScores] :
              /\ replay => scores = rr_raw
              /\ rr_raw' = scores
              /\ reranked' = rerank(results, scores, call.top_k * 2)
    /\ pc' = "reranked"
    /\ UNCHANGED <<use_reranker, call, base, iter_order, boosted, final, returned,
                   first_returned, replay>>

\* line 277; the penalty set is iterated in an order of this invocation
PostRerankPenalties ==
    /\ pc = "reranked"
    /\ \E order \in IterationOrders(reranked, Range(call.qi.peripheral_penalties)) :
          /\ iter_order' = order
          /\ final' = _apply_post_rerank_penalties(reranked, call.qi, order)
    /\ pc' = "penalised"
    /\ UNCHANGED <<use_reranker, call, base, rr_raw, boosted, reranked, returned,
                   first_returned, replay>>

\* a return that forgets the cut to top_k
ReturnFinal_uncut ==
    /\ pc = "penalised"
    /\ returned' = final
    /\ pc' = "done"
    /\ UNCHANGED <<use_reranker, call, base, rr_raw, iter_order, boosted, reranked,
                   final, first_returned, replay>>

\* line 278
ReturnFinal ==
    /\ pc = "penalised"
    /\ returned' = Take(final, call.top_k)
    /\ pc' = "done"
    /\ UNCHANGED <<use_reranker, call, base, rr_raw, iter_order, boosted, reranked,
                   final, first_returned, replay>>

\* the call has returned: its locals are gone, the retriever object stays
Finish ==
    /\ pc = "done"
    /\ pc' = "idle"
    /\ call' = NoCall
    /\ base' = <<>>
    /\ rr_raw' = <<>>
    /\ iter_order' = <<>>
    /\ boosted' = <<>>
    /\ reranked' = <<>>
    /\ final' = <<>>
    /\ returned' = <<>>
    /\ first_returned' = <<>>
    /\ replay' = FALSE
    /\ UNCHANGED use_reranker

QueryIdle == qpc = "off" /\ q_in = <<>> /\ qinfo = None

IndexIdle == ipc = "off" /\ registers = <<>> /\ deduplicated = <<>>

BuildIdle ==
    bpc = "off" /\ batch = <<>> /\ groups = <<>> /\ merged = <<>> /\ chunks = <<>>

Init == InitSearch /\ QueryIdle /\ IndexIdle /\ BuildIdle

Next ==
    \/ \E query \in SearchQueries, top_k \in 1..MaxTopK, rerank_top_n \in 1..MaxHits :
          Fetch(query, top_k, rerank_top_n) /\ UNCHANGED <<queryVars, indexVars, buildVars>>
    \/ FetchAgain /\ UNCHANGED <<queryVars, indexVars, buildVars>>
    \/ Boost /\ UNCHANGED <<queryVars, indexVars, buildVars>>
    \/ ReturnBoosted /\ UNCHANGED <<queryVars, indexVars, buildVars>>
    \/ Rerank /\ UNCHANGED <<queryVars, indexVars, buildVars>>
    \/ PostRerankPenalties /\ UNCHANGED <<queryVars, indexVars, buildVars>>
    \/ ReturnFinal /\ UNCHANGED <<queryVars, indexVars, buildVars>>
    \/ Finish /\ UNCHANGED <<queryVars, indexVars, buildVars>>

Spec == Init /\ [][Next]_vars

----------------------------------------------------------------------------
(* Properties of the retrieval pipeline *)

\* the hit of the store's response a result was made from
BaseOf(h) == CHOOSE b \in Range(base) :
                /\ b.source_id = h.source_id
                /\ b.peripheral = h.peripheral
                /\ b.register = h.register

\* a score after the adjustments named by the three flags
Adjusted(s, per, reg, pen) ==
    LET s1 == IF per THEN Times1_5(s) ELSE s
        s2 == IF reg THEN Times1_4(s1) ELSE s1
    IN  IF pen THEN Times0_5(s2) ELSE s2

Flags(h) == h.metadata._debug.applied_boosts

SidOf(h) == Or(h.source_id, <<>>)

\* descending score, equal scores in ascending source id
OrderedByScoreAndId(s) ==
    \A i, j \in 1..Len(s) :
       i < j => /\ s[i].score >= s[j].score
                /\ s[i].score = s[j].score => ~StrLess(SidOf(s[j]), SidOf(s[i]))

\* the same, the tie rule read only on results that carry a source id
OrderedByScoreAndGivenId(s) ==
    \A i, j \in 1..Len(s) :
       i < j => /\ s[i].score >= s[j].score
                /\ (/\ s[i].score = s[j].score
                    /\ s[i].source_id /= None
                    /\ s[j].source_id /= None)
                   => ~StrLess(s[j].source_id, s[i].source_id)

OrderedByScore(s) == \A i, j \in 1..Len(s) : i < j => s[i].score >= s[j].score

\* C1: every list search returns is in descending score order, and results
\* of equal score are in ascending source-id order, with or without the
\* reranker and with or without penalty prefixes.
C1_ReturnedOrdered == pc = "done" => OrderedByScoreAndGivenId(returned)

\* what a caller reads of a result: its identity and its score
Visible(s) == [i \in 1..Len(s) |->
                 [source_id |-> s[i].source_id, type |-> s[i].type,
                  peripheral |-> s[i].peripheral, register |-> s[i].register,
                  address |-> s[i].address, score |-> s[i].score]]

\* C2: a second invocation of search with the same query, the same store
\* response and the same cross-encoder scores returns the same results in
\* the same order with the same scores.
C2_Deterministic == (pc = "done" /\ replay) => Visible(returned) = Visible(first_returned)

\* two invocations that iterated the penalty set differently and so differ in
\* the recorded penalty_applied, with two results returned
C2_Witness == /\ pc = "done"
              /\ replay
              /\ use_reranker
              /\ Len(returned) = 2
              /\ returned /= first_returned

QPeriph == Range(call.qi.peripheral_hints)

QRegs == Range(call.qi.register_hints)

QPenalties == Range(call.qi.peripheral_penalties)

PeripheralOf(h) == Or(h.peripheral, <<>>)

RegisterOf(h) == Or(h.register, <<>>)

FamilyHinted(h) == QPeriph /= {} /\ _periph_family(PeripheralOf(h)) \in QPeriph

\* C3: a hit gets the factor 1.5 once, and peripheral_match = true, exactly
\* when the query has peripheral-family hints and the hit's resolved family
\* is one of them.
C3_PeripheralBoost ==
    \A i \in 1..Len(boosted) :
       LET h == boosted[i]
       IN  /\ Flags(h).peripheral_match = FamilyHinted(h)
           /\ h.score = Adjusted(BaseOf(h).score, FamilyHinted(h),
                                 Flags(h).register_match, Flags(h).peripheral_penalty)

T_gpio == <<"g","p","i","o">>

\* query token "gpio", hit GPIOA boosted by 1.5 and flagged
C3_Witness ==
    \E i \in 1..Len(boosted) :
       /\ T_gpio \in Range(call.qi.tokens)
       /\ boosted[i].peripheral = <<"G","P","I","O","A">>
       /\ Flags(boosted[i]).peripheral_match
       /\ ~Flags(boosted[i]).register_match
       /\ boosted[i].score = Times1_5(BaseOf(boosted[i]).score)
       /\ boosted[i].score > BaseOf(boosted[i]).score

RegisterHinted(h) == \E hint \in QRegs : Lower(hint) = Lower(RegisterOf(h))

\* C4: a hit gets the factor 1.4 once, and register_match = true, exactly
\* when its register name equals a register hint of the query up to case;
\* a hit with an empty register name never gets it.
C4_RegisterBoost ==
    \A i \in 1..Len(boosted) :
       LET h == boosted[i]
       IN  /\ Flags(h).register_match = RegisterHinted(h)
           /\ h.score = Adjusted(BaseOf(h).score, Flags(h).peripheral_match,
                                 RegisterHinted(h), Flags(h).peripheral_penalty)
           /\ RegisterOf(h) = <<>> => ~Flags(h).register_match

\* register "cr" matched by the hint "CR", and a hit without a register
\* name left alone under the same query
C4_Witness ==
    /\ \E i \in 1..Len(boosted) :
          /\ boosted[i].register = <<"c","r">>
          /\ Flags(boosted[i]).register_match
    /\ \E i \in 1..Len(boosted) :
          /\ RegisterOf(boosted[i]) = <<>>
          /\ ~Flags(boosted[i]).register_match

Times0_7(s) == (s * 7) \div 10

Specific == QPeriph /= {} \/ QRegs /= {}

\* C5 as stated: a device_summary hit is multiplied by 0.7 when the query
\* carries a peripheral or register hint, and is not when it carries none.
C5_SummaryDownweighted ==
    \A i \in 1..Len(boosted) :
       LET h == boosted[i]
           plain == Adjusted(BaseOf(h).score, Flags(h).peripheral_match,
                             Flags(h).register_match, Flags(h).peripheral_penalty)
       IN  h.type = "device_summary" =>
              h.score = (IF Specific THEN Times0_7(plain) ELSE plain)

\* C5 amended: the chunk type has no part in the score; a device_summary
\* hit is adjusted by the factors 1.5, 1.4 and 0.5 its flags name and by
\* nothing else, whether or not the query carries hints.
C5_SummaryNotDownweighted ==
    \A i \in 1..Len(boosted) :
       LET h == boosted[i]
       IN  h.type = "device_summary" =>
              h.score = Adjusted(BaseOf(h).score, Flags(h).peripheral_match,
                                 Flags(h).register_match, Flags(h).peripheral_penalty)

\* a device_summary hit ranked under a query with hints, its score not
\* multiplied by 0.7
C5_Witness ==
    \E i \in 1..Len(boosted) :
       /\ boosted[i].type = "device_summary"
       /\ Specific
       /\ ~Flags(boosted[i]).peripheral_penalty
       /\ ~Flags(boosted[i]).register_match
       /\ boosted[i].score = Times1_5(BaseOf(boosted[i]).score)

MatchingPrefixes(h) == {p \in QPenalties : StartsWith(Upper(PeripheralOf(h)), p)}

\* C6: a hit whose upper-cased peripheral starts with at least one penalty
\* prefix is multiplied by 0.5 once, however many prefixes match, and
\* peripheral_penalty = true; a hit matching none is not penalised.
C6_PenaltyOnce ==
    \A i \in 1..Len(boosted) :
       LET h == boosted[i]
           penalised == MatchingPrefixes(h) /= {}
       IN  /\ Flags(h).peripheral_penalty = penalised
           /\ h.score = Adjusted(BaseOf(h).score, Flags(h).peripheral_match,
                                 Flags(h).register_match, penalised)

\* OTG_FS matched by both OTG and OTG_FS and halved once
C6_Witness ==
    \E i \in 1..Len(boosted) :
       LET h == boosted[i]
       IN  /\ {P_OTG, P_OTG_FS} \subseteq MatchingPrefixes(h)
           /\ Flags(h).peripheral_penalty
           /\ h.score = Times0_5(Adjusted(BaseOf(h).score, Flags(h).peripheral_match,
                                          Flags(h).register_match, FALSE))

PostDebug(h) == h.metadata._debug

PostPenalised(h) == "post_rerank_penalty" \in DOMAIN PostDebug(h)

\* C7: the peripheral-family boost never lowers a score, and neither
\* penalty (0.5 before reranking, 0.1 after) raises one.
C7_BoostMonotone ==
    /\ \A i \in 1..Len(boosted) :
          LET h == boosted[i]
              s == BaseOf(h).score
          IN  /\ Flags(h).peripheral_match =>
                    h.score >= Adjusted(s, FALSE, Flags(h).register_match,
                                        Flags(h).peripheral_penalty)
              /\ Flags(h).peripheral_penalty =>
                    h.score <= Adjusted(s, Flags(h).peripheral_match,
                                        Flags(h).register_match, FALSE)
    /\ \A i \in 1..Len(final) :
          PostPenalised(final[i]) => final[i].score <= PostDebug(final[i]).pre_penalty_score

\* one hit boosted, one penalised before reranking and one after
C7_Witness ==
    /\ \E i \in 1..Len(boosted) :
          Flags(boosted[i]).peripheral_match /\ boosted[i].score > BaseOf(boosted[i]).score
    /\ \E i \in 1..Len(boosted) :
          Flags(boosted[i]).peripheral_penalty /\ boosted[i].score < BaseOf(boosted[i]).score
    /\ \E i \in 1..Len(final) :
          PostPenalised(final[i]) /\ final[i].score < PostDebug(final[i]).pre_penalty_score

SameHit(a, b) == /\ a.source_id = b.source_id
                 /\ a.peripheral = b.peripheral
                 /\ a.register = b.register

FinalOf(r) == CHOOSE f \in Range(final) : SameHit(f, r)

PostMatching(r) == \E p \in QPenalties : StartsWith(Upper(Or(r.peripheral, <<>>)), p)

\* C8: with the reranker, every reranked result whose upper-cased peripheral
\* starts with a penalty prefix has its combined score multiplied by 0.1 once,
\* with post_rerank_penalty and the score before it recorded; every other
\* result is unchanged; the list is sorted again after the pass, and the
\* returned list is its first top_k entries.
C8_PostRerankPenalty ==
    (use_reranker /\ pc \in {"penalised", "done"}) =>
       /\ Len(final) = Len(reranked)
       /\ \A i \in 1..Len(reranked) :
             LET r == reranked[i]
             IN  /\ \E f \in Range(final) : SameHit(f, r)
                 /\ IF PostMatching(r)
                      THEN /\ FinalOf(r).score = Times0_1(r.score)
                           /\ PostPenalised(FinalOf(r))
                           /\ PostDebug(FinalOf(r)).post_rerank_penalty = TRUE
                           /\ PostDebug(FinalOf(r)).pre_penalty_score = r.score
                      ELSE FinalOf(r) = r
       /\ OrderedByScore(final)
       /\ QPenalties /= {} => OrderedByScoreAndId(final)
       /\ pc = "done" => returned = Take(final, call.top_k)

\* a penalised result that led the reranked list and leaves the returned one:
\* the order changed in the pass, and the cut came after it
C8_Witness ==
    /\ use_reranker
    /\ pc = "done"
    /\ Len(final) = 2
    /\ call.top_k = 1
    /\ PostMatching(reranked[1])
    /\ SameHit(final[2], reranked[1])
    /\ final[2].score = Times0_1(reranked[1].score)
    /\ SameHit(returned[1], reranked[2])

----------------------------------------------------------------------------
(* preprocess_query on generated queries *)

\* words queries are made of
Vocabulary == {T_dma, <<"D","M","A">>, T_usb, T_timer, T_tim, T_systick,
               T_prescaler, T_i2c, T_gpio}

InitQuery == qpc = "typing" /\ q_in = <<>> /\ qinfo = None

\* the caller types one more word
AddWord(w) ==
    /\ qpc = "typing"
    /\ Len(TOKEN_RE_findall(q_in)) < MaxQueryWords
    /\ q_in' = (IF q_in = <<>> THEN w ELSE q_in \o <<" ">> \o w)
    /\ UNCHANGED <<qpc, qinfo>>

Preprocess ==
    /\ qpc = "typing"
    /\ qinfo' = preprocess_query(q_in)
    /\ qpc' = "done"
    /\ UNCHANGED q_in

SearchIdle ==
    /\ use_reranker = FALSE
    /\ pc = "off"
    /\ call = NoCall
    /\ base = <<>>
    /\ rr_raw = <<>>
    /\ iter_order = <<>>
    /\ boosted = <<>>
    /\ reranked = <<>>
    /\ final = <<>>
    /\ returned = <<>>
    /\ first_returned = <<>>
    /\ replay = FALSE

InitQ == InitQuery /\ SearchIdle /\ IndexIdle /\ BuildIdle

NextQ ==
    \/ \E w \in Vocabulary : AddWord(w) /\ UNCHANGED <<searchVars, indexVars, buildVars>>
    \/ Preprocess /\ UNCHANGED <<searchVars, indexVars, buildVars>>

SpecQuery == InitQ /\ [][NextQ]_vars

LoweredTokens == {Lower(t) : t \in Range(TOKEN_RE_findall(q_in))}

Has(t) == t \in LoweredTokens

OtgUsbPrefixes == {P_OTG_FS, P_OTG_HS, P_OTG, P_USB}

\* C9: the penalty set is the union of the four rules over the lower-cased
\* tokens, and a query with the token "usb" yields no USB or OTG prefix.
C9_PenaltyRules ==
    qpc = "done" =>
       /\ Range(qinfo.peripheral_penalties) =
             {p \in OtgUsbPrefixes : Has(T_dma) /\ ~Has(T_usb)}
             \cup {p \in {P_STK, P_SYSTICK} :
                     (Has(T_timer) \/ Has(T_tim)) /\ ~Has(T_systick)}
             \cup {p \in {P_WWDG, P_IWDG} :
                     Has(T_timer) \/ Has(T_tim) \/ Has(T_prescaler)}
             \cup {p \in {P_OTG_FS, P_OTG_HS, P_USB} : Has(T_i2c) /\ ~Has(T_usb)}
       /\ Has(T_usb) => Range(qinfo.peripheral_penalties) \cap OtgUsbPrefixes = {}

\* "dma", "usb" and "tim" in one query: "usb" holds the OTG/USB rule back,
\* the SysTick and watchdog rules add their prefixes, sorted
C9_Witness ==
    /\ qpc = "done"
    /\ Has(T_dma)
    /\ Has(T_usb)
    /\ Has(T_tim)
    /\ qinfo.peripheral_penalties = <<P_IWDG, P_STK, P_SYSTICK, P_WWDG>>

----------------------------------------------------------------------------
(* src/indexer: registers and the deduplication stage of main *)

D_STM32F407 == <<"S","T","M","3","2","F","4","0","7">>

D_STM32F411 == <<"S","T","M","3","2","F","4","1","1">>

N_TIM1 == <<"T","I","M","1">>

N_TIM10 == <<"T","I","M","1","0">>

N_CR1 == <<"C","R","1">>

\* ParsedField (models.py:8-18)
ParsedField(name, bit_offset, bit_width, bit_range) ==
    [name |-> name, description |-> None, bit_offset |-> bit_offset,
     bit_width |-> bit_width, bit_range |-> bit_range, access |-> None]

FieldLists == {
    <<ParsedField(<<"E","N">>, 0, 1, <<"[","0",":","0","]">>)>>,
    <<ParsedField(<<"E","N">>, 1, 1, <<"[","1",":","1","]">>)>> }

Descriptions == {<<>>, <<"c","t","l">>}

BaseAddressOf(peripheral) == IF peripheral = N_TIM1 THEN A_0x40 ELSE A_0x50

\* ParsedRegister (models.py:21-51) as parse_svd_file builds it
\* (parser.py:74-96): the aggregation attributes keep their default None
ParsedRegister(device, peripheral, register_description, fields) ==
    [device |-> device,
     device_series |-> None,
     peripheral |-> peripheral,
     peripheral_description |-> <<>>,
     peripheral_group |-> None,
     register |-> N_CR1,
     register_description |-> register_description,
     base_address |-> BaseAddressOf(peripheral),
     address_offset |-> <<"0","x","0">>,
     full_address |-> BaseAddressOf(peripheral),
     size |-> 32,
     access |-> None,
     reset_value |-> None,
     fields |-> fields,
     devices |-> None,
     peripheral_instances |-> None,
     address_map |-> None]

\* registers the parser can deliver
RegisterUniverse ==
    {ParsedRegister(d, p, desc, fl) :
       d \in {D_STM32F407, D_STM32F411}, p \in {N_TIM1, N_TIM10},
       desc \in Descriptions, fl \in FieldLists}

\* (name, offset, width) of a field
FieldTriple(f) == <<f.name, f.bit_offset, f.bit_width>>

TripleLess(a, b) ==
    \/ StrLess(a[1], b[1])
    \/ a[1] = b[1] /\ a[2] < b[2]
    \/ a[1] = b[1] /\ a[2] = b[2] /\ a[3] < b[3]

\* sorted(list of (name, offset, width))
RECURSIVE SortedTriples(_)
SortedTriples(ts) ==
    IF ts = <<>> THEN <<>>
    ELSE LET i == CHOOSE k \in 1..Len(ts) :
                     \A l \in 1..Len(ts) : ~TripleLess(ts[l], ts[k])
         IN  <<ts[i]>> \o SortedTriples(SubSeq(ts, 1, i - 1) \o SubSeq(ts, i + 1, Len(ts)))

\* the identity key of exact deduplication
ExactKey(r) ==
    <<r.device, r.device_series, r.peripheral, r.register,
      r.base_address, r.address_offset, r.full_address,
      r.size, r.access, r.reset_value,
      SortedTriples([i \in 1..Len(r.fields) |-> FieldTriple(r.fields[i])])>>

\* the key without the device
ExactKey_without_device(r) ==
    <<r.device_series, r.peripheral, r.register,
      r.base_address, r.address_offset, r.full_address,
      r.size, r.access, r.reset_value,
      SortedTriples([i \in 1..Len(r.fields) |-> FieldTriple(r.fields[i])])>>

RECURSIVE KeepFirstByKey_without_device(_, _)
KeepFirstByKey_without_device(regs, seen) ==
    IF regs = <<>> THEN <<>>
    ELSE IF ExactKey_without_device(regs[1]) \in seen
           THEN KeepFirstByKey_without_device(Tail(regs), seen)
    ELSE <<regs[1]>> \o KeepFirstByKey_without_device(
                            Tail(regs), seen \cup {ExactKey_without_device(regs[1])})

deduplicate_registers_merging_devices(regs) == KeepFirstByKey_without_device(regs, {})

\* keep the first register of every key, drop the later ones
RECURSIVE KeepFirstByKey(_, _)
KeepFirstByKey(regs, seen) ==
    IF regs = <<>> THEN <<>>
    ELSE IF ExactKey(regs[1]) \in seen THEN KeepFirstByKey(Tail(regs), seen)
    ELSE <<regs[1]>> \o KeepFirstByKey(Tail(regs), seen \cup {ExactKey(regs[1])})

deduplicate_registers_exact(regs) == KeepFirstByKey(regs, {})

InitIndex == ipc = "parsing" /\ registers = <<>> /\ deduplicated = <<>>

\* main.py:90, parse_multiple_svd_files: one more parsed register
ParseRegister(r) ==
    /\ ipc = "parsing"
    /\ Len(registers) < MaxRegisters
    /\ registers' = Append(registers, r)
    /\ UNCHANGED <<ipc, deduplicated>>

\* main.py:93-95: nothing parsed, main returns
MainNoRegisters ==
    /\ ipc = "parsing"
    /\ registers = <<>>
    /\ ipc' = "returned"
    /\ UNCHANGED <<registers, deduplicated>>

\* main.py:97-108: the deduplicated list replaces the parsed one
MainDeduplicate ==
    /\ ipc = "parsing"
    /\ registers /= <<>>
    /\ deduplicated' = deduplicate_registers_exact(registers)
    /\ ipc' = "deduplicated"
    /\ UNCHANGED registers

InitI == InitIndex /\ SearchIdle /\ QueryIdle /\ BuildIdle

NextI ==
    \/ \E r \in RegisterUniverse : ParseRegister(r) /\ UNCHANGED <<searchVars, queryVars, buildVars>>
    \/ MainNoRegisters /\ UNCHANGED <<searchVars, queryVars, buildVars>>
    \/ MainDeduplicate /\ UNCHANGED <<searchVars, queryVars, buildVars>>

SpecIndex == InitI /\ [][NextI]_vars

\* two registers are the same register of the same peripheral instance of
\* the same device, with the same layout
SameIdentity(a, b) ==
    /\ a.device = b.device
    /\ a.device_series = b.device_series
    /\ a.peripheral = b.peripheral
    /\ a.register = b.register
    /\ a.base_address = b.base_address
    /\ a.address_offset = b.address_offset
    /\ a.full_address = b.full_address
    /\ a.size = b.size
    /\ a.access = b.access
    /\ a.reset_value = b.reset_value
    /\ Len(a.fields) = Len(b.fields)
    /\ \A t \in {FieldTriple(a.fields[i]) : i \in 1..Len(a.fields)}
               \cup {FieldTriple(b.fields[i]) : i \in 1..Len(b.fields)} :
          Cardinality({i \in 1..Len(a.fields) : FieldTriple(a.fields[i]) = t})
            = Cardinality({i \in 1..Len(b.fields) : FieldTriple(b.fields[i]) = t})

FirstOccurrences == {i \in 1..Len(registers) :
                       \A j \in 1..(i - 1) : ~SameIdentity(registers[j], registers[i])}

\* C10: exact-identity dedup keeps, in order and unchanged, the first
\* occurrence of every identity; two registers that differ in device or in
\* peripheral instance are never merged, each has its own record in the output.
C10_ExactNeverMerges ==
    ipc = "deduplicated" =>
       /\ \A i, j \in 1..Len(registers) :
             (\/ registers[i].device /= registers[j].device
              \/ registers[i].peripheral /= registers[j].peripheral) =>
                \E k, l \in 1..Len(deduplicated) :
                   /\ k /= l
                   /\ SameIdentity(deduplicated[k], registers[i])
                   /\ SameIdentity(deduplicated[l], registers[j])
       /\ Len(deduplicated) = Cardinality(FirstOccurrences)
       /\ \A k \in 1..Len(deduplicated) :
             \E i \in FirstOccurrences :
                /\ deduplicated[k] = registers[i]
                /\ Cardinality({j \in FirstOccurrences : j < i}) = k - 1

\* a register, an exact duplicate of it with another description, and the
\* same register on another device: the duplicate is dropped, the other
\* device keeps its record
C10_Witness ==
    /\ ipc = "deduplicated"
    /\ Len(registers) = 3
    /\ SameIdentity(registers[1], registers[2])
    /\ registers[1] /= registers[2]
    /\ registers[3].device /= registers[1].device
    /\ registers[3].peripheral = registers[1].peripheral
    /\ registers[3].fields = registers[1].fields
    /\ deduplicated = <<registers[1], registers[3]>>

----------------------------------------------------------------------------
(* src/indexer/deduplicator.py: generalized family deduplication *)

MaxBatch == 3

MaxGroup == 4

\* str(n) of a natural number
RECURSIVE Str(_)
Str(n) == IF n < 10 THEN <<Digits[n + 1]>>
          ELSE Str(n \div 10) \o <<Digits[(n % 10) + 1]>>

\* sep.join(parts), the list halved at each step
RECURSIVE Join(_, _)
Join(sep, parts) ==
    IF parts = <<>> THEN <<>>
    ELSE IF Len(parts) = 1 THEN parts[1]
    ELSE LET half == Len(parts) \div 2
         IN  Join(sep, SubSeq(parts, 1, half)) \o sep
                \o Join(sep, SubSeq(parts, half + 1, Len(parts)))

N_EN == <<"E","N">>

N_DIR == <<"D","I","R">>

N_TIM == <<"T","I","M">>

F_EN_0_1 == ParsedField(N_EN, 0, 1, <<"[","0",":","0","]">>)

F_EN_1_1 == ParsedField(N_EN, 1, 1, <<"[","1",":","1","]">>)

F_EN_0_2 == ParsedField(N_EN, 0, 2, <<"[","0",":","1","]">>)

F_DIR_4_1 == ParsedField(N_DIR, 4, 1, <<"[","4",":","4","]">>)

\* hex(peripheral.base_address + register.address_offset) (parser.py:70,87):
\* a peripheral instance has its own address on every device
AddressOn(device, peripheral) ==
    <<"0", "x">> \o (IF peripheral = N_TIM1 THEN <<"4">> ELSE <<"5">>)
                 \o (IF device = D_STM32F407 THEN <<"0">> ELSE <<"1">>)

\* a register as the parser delivers it, with the SVD's optional series and
\* group name (parser.py:74-96)
SvdRegister(device, device_series, peripheral, peripheral_group, fields) ==
    [ParsedRegister(device, peripheral, <<>>, fields) EXCEPT
        !.device_series = device_series,
        !.peripheral_group = peripheral_group,
        !.full_address = AddressOn(device, peripheral)]

\* the registers the generalized deduplication is run on: two devices, two
\* timer instances whose names share their first four characters, the same
\* fields in two orders, a layout with another offset, one with another
\* width, and two records that carry a group name
DedupUniverse ==
    {SvdRegister(d, None, p, None, fl) :
        d \in {D_STM32F407, D_STM32F411}, p \in {N_TIM1, N_TIM10},
        fl \in {<<F_EN_0_1, F_DIR_4_1>>, <<F_DIR_4_1, F_EN_0_1>>,
                <<F_EN_1_1, F_DIR_4_1>>}}
    \cup {SvdRegister(D_STM32F407, None, N_TIM1, None, <<F_EN_0_2, F_DIR_4_1>>),
          SvdRegister(D_STM32F407, None, N_TIM1, N_TIM, <<F_EN_0_1, F_DIR_4_1>>),
          SvdRegister(D_STM32F411, None, N_TIM10, N_TIM, <<F_DIR_4_1, F_EN_0_1>>)}

\* sorted(register.fields, key=lambda f: f.name): stable
RECURSIVE InsertFieldByName(_, _)
InsertFieldByName(f, sorted) ==
    IF sorted = <<>> THEN <<f>>
    ELSE IF StrLess(f.name, sorted[1].name) THEN <<f>> \o sorted
    ELSE <<sorted[1]>> \o InsertFieldByName(f, Tail(sorted))

RECURSIVE SortFieldsByName(_)
SortFieldsByName(fields) ==
    IF fields = <<>> THEN <<>>
    ELSE InsertFieldByName(fields[Len(fields)],
                           SortFieldsByName(SubSeq(fields, 1, Len(fields) - 1)))

\* f"{field.name}@{field.bit_offset}:{field.bit_width}"
FieldPart(field) ==
    field.name \o <<"@">> \o Str(field.bit_offset) \o <<":">> \o Str(field.bit_width)

\* a signature of the field names alone
FieldSignature_names_only(register) ==
    LET sorted_fields == SortFieldsByName(register.fields)
    IN  Join(<<",">>, [i \in 1..Len(sorted_fields) |-> sorted_fields[i].name])

\* ",".join of the parts of the fields sorted by name
FieldSignature(register) ==
    LET sorted_fields == SortFieldsByName(register.fields)
    IN  Join(<<",">>, [i \in 1..Len(sorted_fields) |-> FieldPart(sorted_fields[i])])

\* the whole peripheral name where the group is missing
PeripheralFamily_whole_name(register) == Or(register.peripheral_group, register.peripheral)

\* register.peripheral_group or register.peripheral[:4]
PeripheralFamily(register) == Or(register.peripheral_group, Take(register.peripheral, 4))

_make_dedup_key(register) ==
    <<PeripheralFamily(register), register.register, FieldSignature(register)>>

P_STM32 == <<"S","T","M","3","2">>

P_nRF == <<"n","R","F">>

P_MK == <<"M","K">>

\* what _extract_family_from_names returns for names that all start with
\* `prefix`: the common family with `suffix`, or the `several` text, or
\* nothing when no name is long enough (the code then tries the next vendor)
VendorFamily(devices, prefix, from, upto, min_len, head, suffix, several) ==
    LET families == {SubSeq(devices[i], from, upto) :
                        i \in {k \in 1..Len(devices) : Len(devices[k]) >= min_len}}
    IN  IF Cardinality(families) = 1
          THEN head \o (CHOOSE f \in families : TRUE) \o suffix
        ELSE IF Cardinality(families) > 1 THEN several
        ELSE None

AllStartWith(devices, prefix) ==
    \A i \in 1..Len(devices) : StartsWith(devices[i], prefix)

\* a variant that gives up when the vendor's family codes differ
_extract_family_from_names_one_family(devices) ==
    LET stm  == IF AllStartWith(devices, P_STM32)
                  THEN VendorFamily(devices, P_STM32, 6, 7, 7, P_STM32, <<"x","x">>, None)
                  ELSE None
        nrf  == IF AllStartWith(devices, P_nRF)
                  THEN VendorFamily(devices, P_nRF, 1, 5, 5, <<>>, <<"x","x","x">>, None)
                  ELSE None
        mk   == IF AllStartWith(devices, P_MK)
                  THEN VendorFamily(devices, P_MK, 1, 4, 4, <<>>, <<"x","x","x">>, None)
                  ELSE None
    IN  IF devices = <<>> THEN None
        ELSE IF stm /= None THEN stm
        ELSE IF nrf /= None THEN nrf
        ELSE mk

_extract_family_from_names(devices) ==
    LET stm  == IF AllStartWith(devices, P_STM32)
                  THEN VendorFamily(devices, P_STM32, 6, 7, 7, P_STM32, <<"x","x">>,
                                    <<"S","T","M","3","2"," ","(","m","u","l","t","i","p","l","e"," ","f","a","m","i","l","i","e","s",")">>)
                  ELSE None
        nrf  == IF AllStartWith(devices, P_nRF)
                  THEN VendorFamily(devices, P_nRF, 1, 5, 5, <<>>, <<"x","x","x">>,
                                    <<"n","R","F"," ","(","m","u","l","t","i","p","l","e"," ","s","e","r","i","e","s",")">>)
                  ELSE None
        mk   == IF AllStartWith(devices, P_MK)
                  THEN VendorFamily(devices, P_MK, 1, 4, 4, <<>>, <<"x","x","x">>,
                                    <<"K","i","n","e","t","i","s"," ","(","m","u","l","t","i","p","l","e"," ","s","e","r","i","e","s",")">>)
                  ELSE None
    IN  IF devices = <<>> THEN None
        ELSE IF stm /= None THEN stm
        ELSE IF nrf /= None THEN nrf
        ELSE mk

\* the device names of a group, sorted(list(set(...)))
DevicesOf(register_group) ==
    SortedStrings({register_group[i].device : i \in 1..Len(register_group)})

\* the series tags the records of a group carry
SeriesOf(register_group) ==
    {register_group[i].device_series :
        i \in {k \in 1..Len(register_group) : Truthy(register_group[k].device_series)}}

_get_device_family(register_group) ==
    LET series_set == SeriesOf(register_group)
        devices == DevicesOf(register_group)
        extracted_family == _extract_family_from_names(devices)
    IN  IF series_set /= {}
          THEN IF Cardinality(series_set) = 1
                 THEN CHOOSE s \in series_set : TRUE
                 ELSE <<"M","u","l","t","i","p","l","e"," ","f","a","m","i","l","i","e","s"," ","(">> \o Str(Cardinality(series_set)) \o <<")">>
        ELSE IF Truthy(extracted_family) THEN extracted_family
        ELSE IF Len(devices) = 1 THEN devices[1]
        ELSE IF Len(devices) <= 3 THEN Join(<<","," ">>, devices)
        ELSE <<"M","u","l","t","i","p","l","e"," ","d","e","v","i","c","e","s"," ","(">> \o Str(Len(devices)) \o <<")">>

\* f"{reg.device}/{reg.peripheral}"
LookupKey(reg) == reg.device \o <<"/">> \o reg.peripheral

\* d[key] = value on a dict kept as its items in insertion order
DictSet(d, key, value) ==
    IF \E i \in 1..Len(d) : d[i][1] = key
      THEN [i \in 1..Len(d) |-> IF d[i][1] = key THEN <<key, value>> ELSE d[i]]
      ELSE Append(d, <<key, value>>)

\* an address map keyed by the device alone
RECURSIVE AddressMap_by_device(_, _)
AddressMap_by_device(group, d) ==
    IF group = <<>> THEN d
    ELSE AddressMap_by_device(Tail(group), DictSet(d, group[1].device, group[1].full_address))

\* deduplicator.py:82-85
RECURSIVE AddressMap(_, _)
AddressMap(group, d) ==
    IF group = <<>> THEN d
    ELSE AddressMap(Tail(group), DictSet(d, LookupKey(group[1]), group[1].full_address))

\* the peripheral generalized to three characters where the group is missing
Representative_family_of_three(group) ==
    IF Len(group) = 1 THEN group[1]
    ELSE LET representative == group[1]
             devices == DevicesOf(group)
             peripherals == SortedStrings({group[i].peripheral : i \in 1..Len(group)})
         IN  [representative EXCEPT
                !.devices = devices,
                !.peripheral_instances = peripherals,
                !.address_map = AddressMap(group, <<>>),
                !.peripheral = IF Len(peripherals) > 1
                                 THEN Or(representative.peripheral_group,
                                         Take(representative.peripheral, 3))
                                 ELSE @,
                !.device = IF Len(devices) > 1 THEN _get_device_family(group) ELSE @]

\* deduplicator.py:66-100: the record one group contributes
Representative(group) ==
    IF Len(group) = 1 THEN group[1]
    ELSE LET representative == group[1]
             devices == DevicesOf(group)
             peripherals == SortedStrings({group[i].peripheral : i \in 1..Len(group)})
         IN  [representative EXCEPT
                !.devices = devices,
                !.peripheral_instances = peripherals,
                !.address_map = AddressMap(group, <<>>),
                !.peripheral = IF Len(peripherals) > 1
                                 THEN PeripheralFamily(representative) ELSE @,
                !.device = IF Len(devices) > 1 THEN _get_device_family(group) ELSE @]

\* the keys of register_groups in insertion order
RECURSIVE GroupKeys(_, _)
GroupKeys(regs, keys) ==
    IF regs = <<>> THEN keys
    ELSE LET key == _make_dedup_key(regs[1])
         IN  GroupKeys(Tail(regs),
                       IF \E i \in 1..Len(keys) : keys[i] = key THEN keys
                       ELSE Append(keys, key))

\* register_groups[key]
GroupOf(regs, key) ==
    LET InGroup(r) == _make_dedup_key(r) = key
    IN  SelectSeq(regs, InGroup)

\* deduplicator.py:57-61: the values of register_groups in insertion order
register_groups(regs) ==
    LET keys == GroupKeys(regs, <<>>)
    IN  [k \in 1..Len(keys) |-> GroupOf(regs, keys[k])]

deduplicate_registers(regs) ==
    LET grouped == register_groups(regs)
    IN  [k \in 1..Len(grouped) |-> Representative(grouped[k])]

InitBatch ==
    bpc = "collecting" /\ batch = <<>> /\ groups = <<>> /\ merged = <<>> /\ chunks = <<>>

\* one more register in the list handed to the batch job
AddRegister(r, bound) ==
    /\ bpc = "collecting"
    /\ Len(batch) < bound
    /\ batch' = Append(batch, r)
    /\ UNCHANGED <<bpc, groups, merged, chunks>>

\* deduplicator.py:103-105: the summary statistics divide by the number of
\* registers handed in, (total_before - total_after) / total_before
StatisticsRaise(regs) == Len(regs) = 0

\* deduplicate_registers(registers): the list is grouped and merged, then
\* the statistics are computed and printed, then the list is returned
Deduplicate ==
    /\ bpc = "collecting"
    /\ groups' = register_groups(batch)
    /\ IF StatisticsRaise(batch)
         THEN merged' = <<>> /\ bpc' = "raised"
         ELSE merged' = deduplicate_registers(batch) /\ bpc' = "deduplicated"
    /\ UNCHANGED <<batch, chunks>>

\* deduplicate_registers called on the list it returned
DeduplicateAgain ==
    /\ bpc = "deduplicated"
    /\ batch' = merged
    /\ groups' = register_groups(merged)
    /\ IF StatisticsRaise(merged)
         THEN merged' = <<>> /\ bpc' = "raised"
         ELSE merged' = deduplicate_registers(merged) /\ bpc' = "rededuplicated"
    /\ UNCHANGED chunks

InitD == InitBatch /\ SearchIdle /\ QueryIdle /\ IndexIdle

NextD ==
    \/ \E r \in DedupUniverse :
          AddRegister(r, MaxBatch) /\ UNCHANGED <<searchVars, queryVars, indexVars>>
    \/ Deduplicate /\ UNCHANGED <<searchVars, queryVars, indexVars>>
    \/ DeduplicateAgain /\ UNCHANGED <<searchVars, queryVars, indexVars>>

SpecDedup == InitD /\ [][NextD]_vars

\* the (name, bit offset, bit width) entries of a register sorted by name
SignatureOf(r) ==
    LET sorted_fields == SortFieldsByName(r.fields)
    IN  [i \in 1..Len(sorted_fields) |-> FieldTriple(sorted_fields[i])]

\* C11: under generalized dedup all registers merged into one representative
\* have the same sorted (name, bit offset, bit width) field signature, and two
\* registers whose fields have the same names but differ in a bit offset or a
\* width are never in the same group.
C11_MergedShareSignature ==
    bpc = "deduplicated" =>
       /\ Len(merged) = Len(groups)
       /\ \A k \in 1..Len(groups) : \A i, j \in 1..Len(groups[k]) :
             SignatureOf(groups[k][i]) = SignatureOf(groups[k][j])
       /\ \A a, b \in 1..Len(batch) :
             SignatureOf(batch[a]) /= SignatureOf(batch[b]) =>
                ~\E k \in 1..Len(groups) :
                     /\ batch[a] \in Range(groups[k])
                     /\ batch[b] \in Range(groups[k])

\* two registers with the fields in different order are merged while a third
\* with the same field names at another offset stays apart
C11_Witness ==
    /\ bpc = "deduplicated"
    /\ Len(batch) = 3
    /\ Len(merged) = 2
    /\ Len(groups[1]) = 2
    /\ groups[1][1].fields /= groups[1][2].fields
    /\ {groups[2][1].fields[i].name : i \in 1..Len(groups[2][1].fields)}
          = {groups[1][1].fields[i].name : i \in 1..Len(groups[1][1].fields)}
    /\ SignatureOf(groups[2][1]) /= SignatureOf(groups[1][1])

\* a list of strings in strictly ascending order
StrictlyAscending(names) ==
    \A i \in 1..(Len(names) - 1) : StrLess(names[i], names[i + 1])

\* C12: for every group of two or more merged registers the representative's
\* devices is the sorted list of the distinct member device names,
\* peripheral_instances the sorted list of the distinct member peripheral
\* names, and address_map has exactly one key "device/peripheral" for each
\* distinct (device, peripheral) of a member, mapped to the full address of a
\* member with that device and peripheral.
C12_AggregationMetadata ==
    bpc = "deduplicated" =>
       \A k \in 1..Len(groups) : Len(groups[k]) >= 2 =>
          LET members == Range(groups[k])
              rep == merged[k]
              pairs == {<<m.device, m.peripheral>> : m \in members}
          IN  /\ StrictlyAscending(rep.devices)
              /\ Range(rep.devices) = {m.device : m \in members}
              /\ StrictlyAscending(rep.peripheral_instances)
              /\ Range(rep.peripheral_instances) = {m.peripheral : m \in members}
              /\ Len(rep.address_map) = Cardinality(pairs)
              /\ \A p \in pairs : \E i \in 1..Len(rep.address_map) :
                    /\ rep.address_map[i][1] = p[1] \o <<"/">> \o p[2]
                    /\ \E m \in members :
                          /\ m.device = p[1]
                          /\ m.peripheral = p[2]
                          /\ rep.address_map[i][2] = m.full_address

\* the same register structure of TIM1 on the two devices: one representative
\* with both devices and one address per device
C12_Witness ==
    /\ bpc = "deduplicated"
    /\ Len(batch) = 2
    /\ batch[1].device = D_STM32F407
    /\ batch[2].device = D_STM32F411
    /\ batch[1].peripheral = N_TIM1
    /\ batch[2].peripheral = N_TIM1
    /\ Len(merged) = 1
    /\ merged[1].devices = <<D_STM32F407, D_STM32F411>>
    /\ merged[1].peripheral_instances = <<N_TIM1>>
    /\ merged[1].address_map =
          << <<D_STM32F407 \o <<"/">> \o N_TIM1, <<"0","x","4","0">>>>,
             <<D_STM32F411 \o <<"/">> \o N_TIM1, <<"0","x","4","1">>>> >>

----------------------------------------------------------------------------
(* the family label of a group merged across devices *)

D_STM32L476 == <<"S","T","M","3","2","L","4","7","6">>

D_nRF52840 == <<"n","R","F","5","2","8","4","0">>

D_MK64FN1M0 == <<"M","K","6","4","F","N","1","M","0">>

S_STM32F4 == <<"S","T","M","3","2","F","4">>

S_STM32L4 == <<"S","T","M","3","2","L","4">>

\* one register of one timer as several SVD files describe it: the files of
\* some devices carry a <series> tag, others none (parser.py:27)
FamilyUniverse ==
    {SvdRegister(ds[1], ds[2], N_TIM1, None, <<F_EN_0_1>>) :
        ds \in {<<D_STM32F407, None>>, <<D_STM32F407, S_STM32F4>>,
                <<D_STM32F411, None>>, <<D_STM32F411, S_STM32F4>>,
                <<D_STM32L476, None>>, <<D_STM32L476, S_STM32L4>>,
                <<D_nRF52840, None>>, <<D_MK64FN1M0, None>>}}

InitF == InitBatch /\ SearchIdle /\ QueryIdle /\ IndexIdle

NextF ==
    \/ \E r \in FamilyUniverse :
          AddRegister(r, MaxGroup) /\ UNCHANGED <<searchVars, queryVars, indexVars>>
    \/ Deduplicate /\ UNCHANGED <<searchVars, queryVars, indexVars>>

SpecFamily == InitF /\ [][NextF]_vars

\* the groups merged from more than one device
CrossDeviceGroups ==
    {k \in 1..Len(groups) :
        Cardinality({groups[k][i].device : i \in 1..Len(groups[k])}) > 1}

TagsOf(k) == {groups[k][i].device_series : i \in 1..Len(groups[k])} \ {None, <<>>}

EveryRecordTagged(k) == \A i \in 1..Len(groups[k]) : Truthy(groups[k][i].device_series)

MultipleFamilies(n) == <<"M","u","l","t","i","p","l","e"," ","f","a","m","i","l","i","e","s"," ","(">> \o Str(n) \o <<")">>

\* C13: when registers of more than one device are merged, the series tag is
\* the family label only if every merged record carries a series tag (the
\* common tag, or "Multiple families (N)" when the tags differ); if a merged
\* record has no series tag the label is not taken from the series tags.
C13_SeriesOnlyIfAllTagged ==
    bpc = "deduplicated" =>
       \A k \in CrossDeviceGroups :
          /\ EveryRecordTagged(k) =>
                merged[k].device =
                   IF Cardinality(TagsOf(k)) = 1 THEN CHOOSE s \in TagsOf(k) : TRUE
                   ELSE MultipleFamilies(Cardinality(TagsOf(k)))
          /\ ~EveryRecordTagged(k) =>
                /\ merged[k].device \notin TagsOf(k)
                /\ merged[k].device /= MultipleFamilies(Cardinality(TagsOf(k)))

\* the groups merged from more than one device in which no record has a
\* series tag
UntaggedCrossDeviceGroups == {k \in CrossDeviceGroups : TagsOf(k) = {}}

NamesOf(k) == SortedStrings({groups[k][i].device : i \in 1..Len(groups[k])})

\* the device names listed verbatim, or their number when there are more than 3
NamesVerbatim(names) ==
    IF Len(names) <= 3 THEN Join(<<","," ">>, names)
    ELSE <<"M","u","l","t","i","p","l","e"," ","d","e","v","i","c","e","s"," ","(">> \o Str(Len(names)) \o <<")">>

\* all names carry the vendor prefix and the same family code after it
SamePatternFamily(names) ==
    \/ /\ \A i \in 1..Len(names) : StartsWith(names[i], P_STM32) /\ Len(names[i]) >= 7
       /\ Cardinality({SubSeq(names[i], 6, 7) : i \in 1..Len(names)}) = 1
    \/ /\ \A i \in 1..Len(names) : StartsWith(names[i], P_nRF) /\ Len(names[i]) >= 5
       /\ Cardinality({SubSeq(names[i], 1, 5) : i \in 1..Len(names)}) = 1
    \/ /\ \A i \in 1..Len(names) : StartsWith(names[i], P_MK) /\ Len(names[i]) >= 4
       /\ Cardinality({SubSeq(names[i], 1, 4) : i \in 1..Len(names)}) = 1

\* all names carry the prefix of one vendor
SameVendor(names) ==
    \E prefix \in {P_STM32, P_nRF, P_MK} :
       \A i \in 1..Len(names) : StartsWith(names[i], prefix)

\* C14 as stated: without series tags, device names that do not all match the
\* same vendor pattern family (STM32F407 and STM32L476) give the names
\* listed verbatim, comma-joined, for at most 3 distinct devices and
\* "Multiple devices (N)" for more.
C14_FallbackToNames ==
    bpc = "deduplicated" =>
       \A k \in UntaggedCrossDeviceGroups :
          ~SamePatternFamily(NamesOf(k)) =>
             merged[k].device = NamesVerbatim(NamesOf(k))

\* C14 amended: without series tags, device names that do not all start with
\* the prefix of one vendor (STM32, nRF, MK) give the names listed verbatim,
\* comma-joined, for at most 3 distinct devices and "Multiple devices (N)"
\* for more; STM32 names with different family codes (STM32F407 and
\* STM32L476) give "STM32 (multiple families)".
C14_FallbackToNamesAcrossVendors ==
    bpc = "deduplicated" =>
       \A k \in UntaggedCrossDeviceGroups :
          /\ ~SameVendor(NamesOf(k)) =>
                merged[k].device = NamesVerbatim(NamesOf(k))
          /\ (/\ \A i \in 1..Len(NamesOf(k)) :
                    StartsWith(NamesOf(k)[i], P_STM32) /\ Len(NamesOf(k)[i]) >= 7
              /\ Cardinality({SubSeq(NamesOf(k)[i], 6, 7) : i \in 1..Len(NamesOf(k))}) > 1) =>
                merged[k].device = <<"S","T","M","3","2"," ","(","m","u","l","t","i","p","l","e"," ","f","a","m","i","l","i","e","s",")">>

\* four devices of three vendors without series tags: the label counts them
C14_Witness ==
    /\ bpc = "deduplicated"
    /\ Len(groups) = 1
    /\ 1 \in UntaggedCrossDeviceGroups
    /\ NamesOf(1) = <<D_MK64FN1M0, D_STM32F407, D_STM32L476, D_nRF52840>>
    /\ merged[1].device = <<"M","u","l","t","i","p","l","e"," ","d","e","v","i","c","e","s"," ","(","4",")">>

----------------------------------------------------------------------------
(* src/indexer/chunker.py: dual-level chunks *)

MAX_SUMMARY_CHARS == 400

MAX_DETAIL_CHARS == 400

\* f"{v}": None prints as the word None
Format(v) == IF v = None THEN <<"N","o","n","e">> ELSE v

\* sub in s
Contains(s, sub) ==
    \E i \in 1..(Len(s) - Len(sub) + 1) : SubSeq(s, i, i + Len(sub) - 1) = sub

\* any(x in s for x in subs)
ContainsAny(s, subs) == \E sub \in subs : Contains(s, sub)

\* sorted(list of strings): duplicates stay, in their order (the sort is
\* stable); the name at place i is the one with i - 1 names before it
SortStrings(names) ==
    LET Before(j, k) == StrLess(names[j], names[k]) \/ (names[j] = names[k] /\ j < k)
        Place(k) == 1 + Cardinality({j \in 1..Len(names) : Before(j, k)})
    IN  [i \in 1..Len(names) |-> names[CHOOSE k \in 1..Len(names) : Place(k) = i]]

\* [r.register for r in registers]
RegisterNames(regs) == [i \in 1..Len(regs) |-> regs[i].register]

\* the set all_fields of the field names of the registers
AllFields(regs) ==
    UNION {{regs[i].fields[j].name : j \in 1..Len(regs[i].fields)} : i \in 1..Len(regs)}

\* _group_registers_by_peripheral: the key of a register
PeripheralKey(reg) ==
    IF Truthy(reg.devices) /\ Len(reg.devices) > 1 THEN reg.peripheral
    ELSE Format(reg.device) \o <<"/">> \o Format(reg.peripheral)

\* the keys of groups in insertion order: the key of every register that
\* is the first with its key
PeripheralKeys(regs) ==
    LET IsFirst(i) == \A j \in 1..(i - 1) : PeripheralKey(regs[j]) /= PeripheralKey(regs[i])
        firsts == SelectSeq([i \in 1..Len(regs) |-> i], IsFirst)
    IN  [k \in 1..Len(firsts) |-> PeripheralKey(regs[firsts[k]])]

\* the items (key, registers) of the dict _group_registers_by_peripheral returns
_group_registers_by_peripheral(regs) ==
    LET keys == PeripheralKeys(regs)
        InGroup(key) == LET Test(r) == PeripheralKey(r) = key IN SelectSeq(regs, Test)
    IN  [k \in 1..Len(keys) |-> <<keys[k], InGroup(keys[k])>>]

\* the category of one register: the first whose markers its upper-cased
\* name contains
CategoryOf(reg) ==
    LET reg_upper == Upper(reg.register)
    IN  IF ContainsAny(reg_upper, {<<"C","R">>, <<"C","T","L">>, <<"C","T","R","L">>}) THEN "control"
        ELSE IF ContainsAny(reg_upper, {<<"S","R">>, <<"S","T","A","T">>, <<"S","T","A","T","U","S">>, <<"I","S","R">>, <<"F","L","A","G">>})
               THEN "status"
        ELSE IF ContainsAny(reg_upper, {<<"D","R">>, <<"D","A","T","A">>, <<"T","X">>, <<"R","X">>, <<"B","U","F">>})
               THEN "data"
        ELSE IF ContainsAny(reg_upper, {<<"C","F","G">>, <<"C","O","N","F","I","G">>, <<"C","O","N","F">>})
               THEN "configuration"
        ELSE "other"

CategoryNames == <<"control", "status", "data", "configuration", "other">>

\* cat_name.title()
Title == [c \in Range(CategoryNames) |->
            CASE c = "control" -> <<"C","o","n","t","r","o","l">>
              [] c = "status" -> <<"S","t","a","t","u","s">>
              [] c = "data" -> <<"D","a","t","a">>
              [] c = "configuration" -> <<"C","o","n","f","i","g","u","r","a","t","i","o","n">>
              [] c = "other" -> <<"O","t","h","e","r">>]

\* the items of the dict _categorize_registers returns: the non-empty
\* categories in their fixed order
_categorize_registers(regs) ==
    LET Members(c) == LET Test(r) == CategoryOf(r) = c IN SelectSeq(regs, Test)
        NonEmpty(c) == Members(c) /= <<>>
        names == SelectSeq(CategoryNames, NonEmpty)
    IN  [i \in 1..Len(names) |-> <<names[i], Members(names[i])>>]

_get_configuration_hints(peripheral) ==
    LET peripheral_upper == Upper(peripheral)
    IN  IF Contains(peripheral_upper, <<"U","S","A","R","T">>) \/ Contains(peripheral_upper, <<"U","A","R","T">>)
          THEN <<"E","n","a","b","l","e"," ","c","l","o","c","k"," ","(","R","C","C",")"," ","→"," ","C","o","n","f","i","g","u","r","e"," ","b","a","u","d"," ","r","a","t","e"," ","(","B","R","R",")"," ","→"," ","E","n","a","b","l","e"," ","T","X","/","R","X"," ","(","C","R","1",")"," ","→"," ","E","n","a","b","l","e"," ","U","A","R","T"," ","(","C","R","1",".","U","E",")","."," ","K","e","y",":"," ","C","R","1",","," ","D","R",","," ","S","R",","," ","B","R","R">>
        ELSE IF Contains(peripheral_upper, <<"S","P","I">>)
          THEN <<"E","n","a","b","l","e"," ","c","l","o","c","k"," ","(","R","C","C",")"," ","→"," ","C","o","n","f","i","g","u","r","e"," ","m","o","d","e","/","c","l","o","c","k"," ","(","C","R","1",")"," ","→"," ","E","n","a","b","l","e"," ","S","P","I"," ","(","C","R","1",".","S","P","E",")"," ","→"," ","W","r","i","t","e"," ","t","o"," ","D","R","."," ","K","e","y",":"," ","C","R","1",","," ","C","R","2",","," ","D","R",","," ","S","R">>
        ELSE IF Contains(peripheral_upper, <<"I","2","C">>)
          THEN <<"E","n","a","b","l","e"," ","c","l","o","c","k"," ","(","R","C","C",")"," ","→"," ","C","o","n","f","i","g","u","r","e"," ","t","i","m","i","n","g"," ","(","T","I","M","I","N","G","R","/","C","C","R",")"," ","→"," ","E","n","a","b","l","e"," ","I","2","C"," ","(","C","R","1",".","P","E",")"," ","→"," ","G","e","n","e","r","a","t","e"," ","S","T","A","R","T","."," ","K","e","y",":"," ","C","R","1",","," ","C","R","2",","," ","S","R","1",","," ","S","R","2">>
        ELSE IF Contains(peripheral_upper, <<"T","I","M">>)
          THEN <<"E","n","a","b","l","e"," ","c","l","o","c","k"," ","(","R","C","C",")"," ","→"," ","S","e","t"," ","p","r","e","s","c","a","l","e","r"," ","(","P","S","C",")"," ","→"," ","S","e","t"," ","a","u","t","o","-","r","e","l","o","a","d"," ","(","A","R","R",")"," ","→"," ","E","n","a","b","l","e"," ","c","o","u","n","t","e","r"," ","(","C","R","1",".","C","E","N",")","."," ","P","W","M",":"," ","C","o","n","f","i","g","u","r","e"," ","C","C","R"," ","→"," ","S","e","t"," ","m","o","d","e"," ","(","C","C","M","R",")"," ","→"," ","E","n","a","b","l","e"," ","(","C","C","E","R",")">>
        ELSE IF Contains(peripheral_upper, <<"G","P","I","O">>)
          THEN <<"C","o","n","f","i","g","u","r","e"," ","m","o","d","e"," ","(","M","O","D","E","R",")"," ","→"," ","S","e","t"," ","o","u","t","p","u","t"," ","(","B","S","R","R",")"," ","→"," ","R","e","a","d"," ","i","n","p","u","t"," ","(","I","D","R",")"," ","→"," ","P","u","l","l","-","u","p","/","d","o","w","n"," ","(","P","U","P","D","R",")">>
        ELSE IF Contains(peripheral_upper, <<"A","D","C">>)
          THEN <<"E","n","a","b","l","e"," ","c","l","o","c","k"," ","(","R","C","C",")"," ","→"," ","C","o","n","f","i","g","u","r","e"," ","c","h","a","n","n","e","l","s"," ","(","S","Q","R",")"," ","→"," ","S","t","a","r","t"," ","c","o","n","v","e","r","s","i","o","n"," ","(","C","R","2",".","S","W","S","T","A","R","T",")"," ","→"," ","R","e","a","d"," ","r","e","s","u","l","t"," ","(","D","R",")">>
        ELSE IF Contains(peripheral_upper, <<"D","M","A">>)
          THEN <<"C","o","n","f","i","g","u","r","e"," ","a","d","d","r","e","s","s","e","s"," ","(","P","A","R","/","M","A","R",")"," ","→"," ","S","e","t"," ","c","o","u","n","t"," ","(","N","D","T","R",")"," ","→"," ","C","o","n","f","i","g","u","r","e"," ","m","o","d","e"," ","(","C","C","R",")"," ","→"," ","E","n","a","b","l","e"," ","(","C","C","R",".","E","N",")">>
        ELSE IF Contains(peripheral_upper, <<"R","C","C">>)
          THEN <<"S","y","s","t","e","m"," ","c","l","o","c","k"," ","c","o","n","f","i","g","u","r","a","t","i","o","n"," ","a","n","d"," ","p","e","r","i","p","h","e","r","a","l"," ","c","l","o","c","k"," ","e","n","a","b","l","e","s">>
        ELSE IF Contains(peripheral_upper, <<"P","W","R">>)
          THEN <<"P","o","w","e","r"," ","c","o","n","t","r","o","l",","," ","l","o","w","-","p","o","w","e","r"," ","m","o","d","e","s",","," ","v","o","l","t","a","g","e"," ","r","e","g","u","l","a","t","i","o","n">>
        ELSE peripheral \o <<":"," ","S","y","s","t","e","m"," ","p","e","r","i","p","h","e","r","a","l">>

\* text[:limit - 3] + "..." when the text is longer than the limit
HardLimit_off(text, limit) == text

HardLimit(text, limit) ==
    IF Len(text) > limit THEN Take(text, limit - 3) \o <<".",".",".">> ELSE text

\* chunker.py:177-186: the lines every summary starts with
SummaryHead(rep, regs) ==
    <<<<"P","e","r","i","p","h","e","r","a","l",":"," ">> \o Format(rep.peripheral)>>
    \o (IF Truthy(rep.peripheral_description)
          THEN <<<<"D","e","s","c","r","i","p","t","i","o","n",":"," ">> \o Take(rep.peripheral_description, 100)>>
          ELSE <<>>)
    \o <<<<"D","e","v","i","c","e",":"," ">> \o Format(rep.device)>>
    \o <<<<"\n","R","e","g","i","s","t","e","r","s"," ","(">> \o Str(Len(regs)) \o <<")",":"," ">>
            \o Join(<<","," ">>, SortStrings(RegisterNames(regs)))>>

\* chunker.py:196-205: the category lines that fit, until the first that does not
RECURSIVE AddCategories(_, _)
AddCategories(lines, categories) ==
    IF categories = <<>> THEN lines
    ELSE LET cat_line == Title[categories[1][1]] \o <<":"," ">>
                            \o Join(<<","," ">>, SortStrings(RegisterNames(categories[1][2])))
         IN  IF Len(Join(<<"\n">>, lines)) + Len(cat_line) + 1 < MAX_SUMMARY_CHARS - 50
               THEN AddCategories(Append(lines, cat_line), Tail(categories))
               ELSE lines

\* chunker.py:188-205
WithCategories(lines, regs) ==
    IF MAX_SUMMARY_CHARS - Len(Join(<<"\n">>, lines)) > 100
      THEN AddCategories(lines, _categorize_registers(regs))
      ELSE lines

\* chunker.py:207-227
WithFields(lines, regs) ==
    LET remaining_chars == MAX_SUMMARY_CHARS - Len(Join(<<"\n">>, lines))
        field_str == Join(<<","," ">>, SortedStrings(AllFields(regs)))
        max_field_len == remaining_chars - 20
    IN  IF remaining_chars > 80 /\ AllFields(regs) /= {}
          THEN Append(lines, <<"\n","C","o","m","m","o","n"," ","f","i","e","l","d","s",":"," ">>
                 \o (IF Len(field_str) > max_field_len
                       THEN Take(field_str, max_field_len - 3) \o <<".",".",".">>
                       ELSE field_str))
          ELSE lines

\* chunker.py:229-236
WithHints(lines, rep) ==
    LET remaining_chars == MAX_SUMMARY_CHARS - Len(Join(<<"\n">>, lines))
        hints == _get_configuration_hints(rep.peripheral)
    IN  IF remaining_chars > 60
          THEN Append(lines, <<"\n","C","o","n","f","i","g",":"," ">>
                 \o (IF Len(hints) > remaining_chars - 10
                       THEN Take(hints, remaining_chars - 13) \o <<".",".",".">>
                       ELSE hints))
          ELSE lines
\* hashlib.md5(key.encode()).hexdigest()[:8] of the grouping keys
Md5Hex8(key) ==
    CASE key = <<"S","T","M","3","2","F","4","0","7","/","T","I","M","1">> -> <<"0","b","c","d","1","c","a","7">>
      [] key = <<"S","T","M","3","2","F","4","1","1","/","U","S","A","R","T","1">> -> <<"a","d","c","4","2","6","e","f">>
      [] key = <<"S","T","M","3","2","F","6","6","6","5","5","/","T","I","M","1">> -> <<"2","4","4","4","3","3","2","6">>
      [] key = <<"S","T","M","3","2","F","9","5","1","6","5","/","T","I","M","1">> -> <<"2","4","4","4","3","3","2","6">>
      [] key = <<"T","I","M","1">> -> <<"0","5","7","2","7","5","e","b">>
      [] key = <<"S","T","M","3","2","F","4","0","7","/","C","A","N","1">> -> <<"2","8","a","d","1","1","a","d">>
      [] key = <<"S","T","M","3","2","F","4","1","1","/","T","I","M","1">> -> <<"9","4","b","d","a","8","5","9">>
      [] key = <<"S","T","M","3","2","F","4","1","1","/","N","o","n","e">> -> <<"f","e","6","c","9","6","e","b">>

\* chunker.py:248-259 and 308-320: the metadata the two peripheral chunk
\* kinds share; getattr(rep, 'devices', ...) finds the attribute the
\* dataclass always has (models.py:49-50), whatever its value
PeripheralMetadata(type, rep, regs) ==
    [type |-> type,
     device |-> rep.device,
     peripheral |-> rep.peripheral,
     peripheral_group |-> Or(rep.peripheral_group, <<>>),
     register_count |-> Len(regs),
     registers |-> RegisterNames(regs),
     field_names |-> Join(<<","," ">>, SortedStrings(AllFields(regs))),
     peripheral_lower |-> Lower(Or(rep.peripheral, <<>>)),
     devices |-> rep.devices,
     peripheral_instances |-> rep.peripheral_instances]

create_peripheral_summary_chunk(peripheral_key, regs) ==
    LET rep == regs[1]
        lines == WithHints(WithFields(WithCategories(SummaryHead(rep, regs),
                                                     regs), regs), rep)
    IN  [id |-> Format(rep.peripheral) \o <<"_","s","u","m","m","a","r","y","_">> \o Md5Hex8(peripheral_key),
         text |-> HardLimit(Join(<<"\n">>, lines), MAX_SUMMARY_CHARS),
         metadata |-> PeripheralMetadata("peripheral_summary", rep, regs)]

\* f"{field.name}{field.bit_range}" and the description when there is one
FieldStr(field) ==
    field.name \o field.bit_range
    \o (IF Truthy(field.description) THEN <<" ","-"," ">> \o field.description ELSE <<>>)

_format_register_detailed(register) ==
    Join(<<"\n">>,
         <<<<"\n">> \o register.register>>
         \o (IF Truthy(register.register_description)
               THEN <<<<" "," ">> \o register.register_description>> ELSE <<>>)
         \o <<<<" "," ","A","d","d","r","e","s","s",":"," ">> \o Format(register.full_address)>>
         \o (IF Truthy(register.access)
               THEN <<<<" "," ","A","c","c","e","s","s",":"," ">> \o register.access>> ELSE <<>>)
         \o (IF Truthy(register.reset_value)
               THEN <<<<" "," ","R","e","s","e","t",":"," ">> \o register.reset_value>> ELSE <<>>)
         \o (IF register.fields /= <<>>
               THEN <<<<" "," ","F","i","e","l","d","s",":"," ">> \o Join(<<","," ">>,
                        [i \in 1..Len(register.fields) |-> FieldStr(register.fields[i])])>>
               ELSE <<>>))

TruncatedMarker == <<"\n","[","A","d","d","i","t","i","o","n","a","l"," ","r","e","g","i","s","t","e","r","s"," ","t","r","u","n","c","a","t","e","d"," ","t","o"," ","f","i","t"," ","5","1","2"," ","t","o","k","e","n"," ","l","i","m","i","t","]">>

\* chunker.py:286-296: the registers that fit, then the marker and no more
RECURSIVE AddRegisterTexts(_, _)
AddRegisterTexts(lines, regs) ==
    IF regs = <<>> THEN lines
    ELSE LET reg_text == _format_register_detailed(regs[1])
         IN  IF Len(Join(<<"\n">>, lines)) + Len(reg_text) + 1 < MAX_DETAIL_CHARS
               THEN AddRegisterTexts(Append(lines, reg_text), Tail(regs))
               ELSE Append(lines, TruncatedMarker)

\* chunker.py:273-296
DetailLines(rep, regs, chunk_index) ==
    AddRegisterTexts(
        <<<<"P","e","r","i","p","h","e","r","a","l",":"," ">> \o Format(rep.peripheral) \o <<" ","(","D","e","t","a","i","l"," ">>
             \o Str(chunk_index + 1) \o <<")">>,
          <<"D","e","v","i","c","e",":"," ">> \o Format(rep.device),
          <<"R","e","g","i","s","t","e","r","s",":"," ">> \o Join(<<","," ">>, RegisterNames(regs)) \o <<"\n">>>>,
        regs)

_create_detail_chunk(peripheral_key, rep, regs, chunk_index) ==
    [id |-> Format(rep.peripheral) \o <<"_","d","e","t","a","i","l","_">> \o Str(chunk_index) \o <<"_">>
               \o Md5Hex8(peripheral_key),
     text |-> HardLimit(Join(<<"\n">>, DetailLines(rep, regs, chunk_index)),
                        MAX_DETAIL_CHARS),
     metadata |-> [chunk_part |-> chunk_index + 1]
                     @@ PeripheralMetadata("peripheral_detail", rep, regs)]

\* every register of the run is rendered in the chunk built from it
FitsOneChunk(rep, run, chunk_index) ==
    LET lines == DetailLines(rep, run, chunk_index)
    IN  Len(lines) = 3 + Len(run) /\ lines[Len(lines)] /= TruncatedMarker

\* how many of the registers go to the chunk being filled: the first always,
\* each further one while it still fits
RunLength(rep, regs, chunk_index) ==
    CHOOSE m \in 1..Len(regs) :
       /\ \A n \in 2..m : FitsOneChunk(rep, SubSeq(regs, 1, n), chunk_index)
       /\ m < Len(regs) => ~FitsOneChunk(rep, SubSeq(regs, 1, m + 1), chunk_index)

\* a packing that forgets the register that did not fit
RECURSIVE PackRegisters_dropping_overflow(_, _, _)
PackRegisters_dropping_overflow(rep, regs, runs) ==
    IF regs = <<>> THEN runs
    ELSE LET m == RunLength(rep, regs, Len(runs))
         IN  PackRegisters_dropping_overflow(rep, SubSeq(regs, m + 2, Len(regs)),
                                             Append(runs, SubSeq(regs, 1, m)))

\* the registers in order, each appended to the current chunk while it fits;
\* the one that would overflow closes the chunk and opens the next
RECURSIVE PackRegisters(_, _, _)
PackRegisters(rep, regs, runs) ==
    IF regs = <<>> THEN runs
    ELSE LET m == RunLength(rep, regs, Len(runs))
         IN  PackRegisters(rep, SubSeq(regs, m + 1, Len(regs)),
                           Append(runs, SubSeq(regs, 1, m)))

create_peripheral_detail_chunks(peripheral_key, regs) ==
    LET rep == regs[1]
        runs == PackRegisters(rep, regs, <<>>)
    IN  [k \in 1..Len(runs) |-> _create_detail_chunk(peripheral_key, rep, runs[k], k - 1)]

\* chunker.py:334-343: the device names and the peripheral names of a register
DevicesFor(reg) == IF Truthy(reg.devices) THEN reg.devices ELSE <<reg.device>>

PeriphsFor(reg) ==
    IF Truthy(reg.peripheral_instances) THEN reg.peripheral_instances ELSE <<reg.peripheral>>

\* a variant that lets the placeholder name through
BadDevice_empty_only(device) == ~Truthy(device)

\* not device or device == "None"
BadDevice(device) == ~Truthy(device) \/ device = <<"N","o","n","e">>

\* chunker.py:332-358: the steps of the two nested loops, (register index,
\* index in its device list), that pass the skip of the bad names
TrackedSteps(regs) ==
    {ij \in UNION {{<<i, j>> : j \in 1..Len(DevicesFor(regs[i]))} : i \in 1..Len(regs)} :
        ~BadDevice(DevicesFor(regs[ij[1]])[ij[2]])}

\* a step comes before another in the loops
StepBefore(a, b) == a[1] < b[1] \/ (a[1] = b[1] /\ a[2] < b[2])

\* chunker.py:346-358: the items of device_peripherals, one per device in the
\* order the loops first meet it, with the union of the peripherals added
\* for it, and the items of device_series, the series of the last register
\* that set it
TrackRegisters(regs) ==
    LET steps == TrackedSteps(regs)
        DeviceAt(ij) == DevicesFor(regs[ij[1]])[ij[2]]
        names == {DeviceAt(ij) : ij \in steps}
        First(d) == CHOOSE ij \in steps :
                       /\ DeviceAt(ij) = d
                       /\ \A o \in steps : DeviceAt(o) = d => ~StepBefore(o, ij)
        Place(d) == 1 + Cardinality({e \in names : StepBefore(First(e), First(d))})
        ordered == [k \in 1..Cardinality(names) |-> CHOOSE d \in names : Place(d) = k]
        Tagging(d) == {ij \in steps : DeviceAt(ij) = d /\ Truthy(regs[ij[1]].device_series)}
        Last(d) == CHOOSE ij \in Tagging(d) : \A o \in Tagging(d) : ~StepBefore(ij, o)
        Tagged(d) == Tagging(d) /= {}
        tagged == SelectSeq(ordered, Tagged)
    IN  [device_peripherals |->
            [k \in 1..Len(ordered) |->
                <<ordered[k],
                  UNION {Range(PeriphsFor(regs[ij[1]])) :
                            ij \in {o \in steps : DeviceAt(o) = ordered[k]}}>>],
         device_series |->
            [k \in 1..Len(tagged) |-> <<tagged[k], regs[Last(tagged[k])[1]].device_series>>]]

\* device_series.get(device, default)
DictGet(d, key, default) ==
    IF \E i \in 1..Len(d) : d[i][1] = key
      THEN d[CHOOSE i \in 1..Len(d) : d[i][1] = key][2]
      ELSE default

\* f"{label} ({len(members)}): {', '.join(members)}" for a bucket with members
BucketLine(label, members) ==
    IF members = <<>> THEN <<>>
    ELSE <<label \o <<" ","(">> \o Str(Len(members)) \o <<")",":"," ">> \o Join(<<","," ">>, members)>>

\* chunker.py:371-438: the chunk of one device
DeviceSummaryChunk(device, peripherals, device_series) ==
    LET Starting(prefix) == SortedStrings({p \in peripherals : StartsWith(p, prefix)})
        Holding(subs) == SortedStrings({p \in peripherals : ContainsAny(p, subs)})
        timers == Starting(<<"T","I","M">>)
        gpios == Starting(<<"G","P","I","O">>)
        uarts == Holding({<<"U","A","R","T">>, <<"U","S","A","R","T">>})
        spis == Starting(<<"S","P","I">>)
        i2cs == Starting(<<"I","2","C">>)
        adcs == Starting(<<"A","D","C">>)
        dacs == Starting(<<"D","A","C">>)
        dmas == Starting(<<"D","M","A">>)
        usbs == Holding({<<"U","S","B">>})
        cans == Holding({<<"C","A","N">>})
        categorized == Range(timers \o gpios \o uarts \o spis \o i2cs \o adcs
                             \o dacs \o dmas \o usbs \o cans)
        others == SortedStrings(peripherals \ categorized)
        series == DictGet(device_series, device, None)
        lines == <<<<"D","e","v","i","c","e",":"," ">> \o device>>
                 \o (IF series /= None THEN <<<<"S","e","r","i","e","s",":"," ">> \o series>> ELSE <<>>)
                 \o <<<<"\n","A","v","a","i","l","a","b","l","e"," ","P","e","r","i","p","h","e","r","a","l","s"," ","(">> \o Str(Cardinality(peripherals))
                        \o <<" ","t","o","t","a","l",")",":","\n">>>>
                 \o BucketLine(<<"T","i","m","e","r","s">>, timers)
                 \o BucketLine(<<"G","P","I","O">>, gpios)
                 \o BucketLine(<<"U","A","R","T","/","U","S","A","R","T">>, uarts)
                 \o BucketLine(<<"S","P","I">>, spis)
                 \o BucketLine(<<"I","2","C">>, i2cs)
                 \o BucketLine(<<"A","D","C">>, adcs)
                 \o BucketLine(<<"D","A","C">>, dacs)
                 \o BucketLine(<<"D","M","A">>, dmas)
                 \o BucketLine(<<"U","S","B">>, usbs)
                 \o BucketLine(<<"C","A","N">>, cans)
                 \o (IF others /= <<>>
                       THEN <<<<"\n","S","y","s","t","e","m","/","O","t","h","e","r",":"," ">> \o Join(<<","," ">>, others)>> ELSE <<>>)
    IN  [id |-> <<"d","e","v","i","c","e","_","s","u","m","m","a","r","y","_">> \o device,
         text |-> Join(<<"\n">>, lines),
         metadata |->
            [type |-> "device_summary",
             device |-> device,
             peripheral |-> Join(<<" ">>, SortedStrings(peripherals)),
             device_series |-> DictGet(device_series, device, <<>>),
             peripheral_count |-> Cardinality(peripherals),
             peripherals |-> SortedStrings(peripherals),
             timers |-> timers, gpios |-> gpios, uarts |-> uarts, spis |-> spis,
             i2cs |-> i2cs, adcs |-> adcs, dacs |-> dacs, usbs |-> usbs,
             cans |-> cans]]

\* the device names the second loop emits a chunk for (chunker.py:363-368)
EmittedDevices(device_peripherals) ==
    LET Good(item) == ~BadDevice(item[1])
    IN  SelectSeq(device_peripherals, Good)

create_device_summary_chunks(regs) ==
    LET tracked == TrackRegisters(regs)
        emitted == EmittedDevices(tracked.device_peripherals)
    IN  [k \in 1..Len(emitted) |->
            DeviceSummaryChunk(emitted[k][1], emitted[k][2], tracked.device_series)]

\* chunker.py:229-232: the summary gets as far as the configuration hints
HintsReached(regs) ==
    MAX_SUMMARY_CHARS
      - Len(Join(<<"\n">>, WithFields(WithCategories(SummaryHead(regs[1], regs), regs), regs))) > 60

\* create_peripheral_summary_chunk raises: a register name that is None
\* cannot be joined (chunker.py:186, TypeError), and a peripheral name that
\* is None has no upper() (chunker.py:111 called at 232, AttributeError)
SummaryRaises(regs) ==
    \/ \E i \in 1..Len(regs) : regs[i].register = None
    \/ regs[1].peripheral = None /\ HintsReached(regs)

\* chunker.py:474-491: the chunks of the peripheral groups, a summary and
\* then its details for each group in turn; the except clause drops what a
\* group that raised had not yet appended, and the loop goes on
RECURSIVE PeripheralChunks(_)
PeripheralChunks(peripheral_groups) ==
    IF peripheral_groups = <<>> THEN <<>>
    ELSE IF SummaryRaises(peripheral_groups[1][2])
      THEN PeripheralChunks(Tail(peripheral_groups))
    ELSE <<create_peripheral_summary_chunk(peripheral_groups[1][1], peripheral_groups[1][2])>>
         \o create_peripheral_detail_chunks(peripheral_groups[1][1], peripheral_groups[1][2])
         \o PeripheralChunks(Tail(peripheral_groups))

\* create_device_summary_chunks raises: a peripheral name that is None has
\* no startswith() (chunker.py:371, AttributeError), and no except clause
\* is around the call (chunker.py:498)
DeviceSummariesRaise(regs) ==
    LET emitted == EmittedDevices(TrackRegisters(regs).device_peripherals)
    IN  \E k \in 1..Len(emitted) : None \in emitted[k][2]

create_chunks(regs) ==
    PeripheralChunks(_group_registers_by_peripheral(regs))
    \o create_device_summary_chunks(regs)

MaxBankRegisters == 24

N_USART1 == <<"U","S","A","R","T","1">>

N_CAN1 == <<"C","A","N","1">>

N_DR == <<"D","R">>

D_STM32F66655 == <<"S","T","M","3","2","F","6","6","6","5","5">>

D_STM32F95165 == <<"S","T","M","3","2","F","9","5","1","6","5">>

\* the registers the chunk builder is run on: two registers of one timer,
\* USART1.DR without a group, the same timer register on two further
\* devices, and a record merged across two devices by deduplicate_registers
ChunkUniverse ==
    {SvdRegister(D_STM32F407, None, N_TIM1, None, <<F_EN_0_1>>),
     [SvdRegister(D_STM32F407, None, N_TIM1, None, <<F_DIR_4_1>>) EXCEPT !.register = N_DR],
     [SvdRegister(D_STM32F411, None, N_USART1, None, <<F_EN_0_1>>) EXCEPT !.register = N_DR],
     SvdRegister(D_STM32F66655, None, N_TIM1, None, <<F_EN_0_1>>),
     SvdRegister(D_STM32F95165, None, N_TIM1, None, <<F_EN_0_1>>),
     deduplicate_registers(<<SvdRegister(D_STM32F407, None, N_TIM1, None, <<F_EN_0_1>>),
                             SvdRegister(D_STM32F411, None, N_TIM1, None, <<F_EN_0_1>>)>>)[1]}

\* the filter-bank registers FILTERBANK0R1, FILTERBANK1R1, ... of a CAN
\* controller, as one SVD
\* file delivers them (parser.py:40-98)
Bank(n) ==
    [i \in 1..n |->
        [SvdRegister(D_STM32F407, None, N_CAN1, None, <<F_EN_0_1>>)
            EXCEPT !.register = <<"F","I","L","T","E","R","B","A","N","K">>
                                   \o Str(i - 1) \o <<"R", "1">>]]

BankSizes == {MaxBankRegisters \div 4, MaxBankRegisters}

\* parse_multiple_svd_files: the registers of one file join the list
AddBank(n) ==
    /\ bpc = "collecting"
    /\ batch = <<>>
    /\ batch' = Bank(n)
    /\ UNCHANGED <<bpc, groups, merged, chunks>>

\* main.py:113: chunks = create_chunks(registers)
CreateChunks ==
    /\ bpc = "collecting"
    /\ batch /= <<>>
    /\ IF DeviceSummariesRaise(batch)
         THEN chunks' = <<>> /\ bpc' = "raised"
         ELSE chunks' = create_chunks(batch) /\ bpc' = "chunked"
    /\ UNCHANGED <<batch, groups, merged>>

InitC == InitBatch /\ SearchIdle /\ QueryIdle /\ IndexIdle

NextC ==
    \/ \E r \in ChunkUniverse :
          AddRegister(r, MaxBatch) /\ UNCHANGED <<searchVars, queryVars, indexVars>>
    \/ \E n \in BankSizes : AddBank(n) /\ UNCHANGED <<searchVars, queryVars, indexVars>>
    \/ CreateChunks /\ UNCHANGED <<searchVars, queryVars, indexVars>>

SpecChunk == InitC /\ [][NextC]_vars

\* the chunks of one kind in the list create_chunks returned
ChunksOfType(type) == {k \in 1..Len(chunks) : chunks[k].metadata.type = type}

EndsWith(s, suffix) ==
    Len(s) >= Len(suffix) /\ SubSeq(s, Len(s) - Len(suffix) + 1, Len(s)) = suffix

\* C15: every peripheral summary chunk and every peripheral detail chunk has
\* a text of at most 400 characters, whatever the number of registers and
\* the lengths of their names.
C15_ChunkBudget ==
    bpc = "chunked" =>
       /\ \A k \in ChunksOfType("peripheral_summary") :
             Len(chunks[k].text) <= MAX_SUMMARY_CHARS
       /\ \A k \in ChunksOfType("peripheral_detail") :
             Len(chunks[k].text) <= MAX_DETAIL_CHARS

\* a peripheral of 24 registers: the summary was cut to the budget, and the
\* details went to several chunks
C15_Witness ==
    /\ bpc = "chunked"
    /\ Len(batch) = MaxBankRegisters
    /\ Len(chunks[1].text) = MAX_SUMMARY_CHARS
    /\ EndsWith(chunks[1].text, <<".",".",".">>)
    /\ Cardinality(ChunksOfType("peripheral_detail")) > 1

\* the line f"\nRegisters ({len(registers)}): {', '.join(reg_names)}" of the
\* group a peripheral chunk was built from
RegistersLine(chunk) ==
    <<"R","e","g","i","s","t","e","r","s"," ","(">> \o Str(chunk.metadata.register_count) \o <<")",":"," ">>
    \o Join(<<","," ">>, SortStrings(chunk.metadata.registers))

\* C16: the text of every peripheral summary chunk contains "Registers (n): "
\* followed by the complete sorted list of the register names of its group,
\* whatever the number of registers.
C16_RegisterListComplete ==
    bpc = "chunked" =>
       \A k \in ChunksOfType("peripheral_summary") :
          Contains(chunks[k].text, RegistersLine(chunks[k]))

\* the detail chunks of the group whose summary is chunk k: those that follow
\* it up to the next chunk of another kind
DetailsOf(k) ==
    {j \in (k + 1)..Len(chunks) :
        \A i \in (k + 1)..j : chunks[i].metadata.type = "peripheral_detail"}

\* the register names of the detail chunks k + 1 .. k + n, in order
RECURSIVE PlacedRegisters(_, _)
PlacedRegisters(k, n) ==
    IF n = 0 THEN <<>>
    ELSE PlacedRegisters(k, n - 1) \o chunks[k + n].metadata.registers

\* C17: the detail chunks of every peripheral group hold, between them, every
\* register of the group exactly once and in order: none is lost when a
\* chunk is closed and the next one opened, and no chunk is empty.
C17_EveryRegisterPlacedOnce ==
    bpc = "chunked" =>
       \A k \in ChunksOfType("peripheral_summary") :
          /\ PlacedRegisters(k, Cardinality(DetailsOf(k))) = chunks[k].metadata.registers
          /\ \A j \in DetailsOf(k) : chunks[j].metadata.registers /= <<>>

\* a peripheral of 24 registers went to several detail chunks, the second of
\* them starting where the first was closed
C17_Witness ==
    /\ bpc = "chunked"
    /\ Len(batch) = MaxBankRegisters
    /\ chunks[1].metadata.register_count = MaxBankRegisters
    /\ Cardinality(DetailsOf(1)) > 2
    /\ chunks[3].metadata.chunk_part = 2
    /\ chunks[3].metadata.registers[1]
          = batch[Len(chunks[2].metadata.registers) + 1].register

----------------------------------------------------------------------------
(* src/indexer/chunker.py: device summaries over registers whose device
   names are missing or placeholders *)

D_None == <<"N","o","n","e">>

\* the registers the device summaries are built from: a register of an SVD
\* without a device name, one whose name is the word None, one whose name is
\* the value None, a tagged register, one whose devices list is empty, and
\* three records merged by deduplicate_registers, the first over the names
\* "", "None" and STM32F411, the last over TIM1 of STM32F407 and TIM10 of
\* STM32F411
DeviceUniverse ==
    {SvdRegister(<<>>, None, N_TIM1, None, <<F_EN_0_1>>),
     SvdRegister(D_None, None, N_USART1, None, <<F_EN_0_1>>),
     SvdRegister(None, None, N_TIM10, None, <<F_EN_0_1>>),
     SvdRegister(D_STM32F407, S_STM32F4, N_TIM1, None, <<F_EN_0_1>>),
     [SvdRegister(D_STM32F411, None, N_USART1, None, <<F_EN_0_1>>) EXCEPT !.devices = <<>>],
     deduplicate_registers(<<SvdRegister(<<>>, None, N_TIM1, None, <<F_EN_0_1>>),
                             SvdRegister(D_None, None, N_TIM10, None, <<F_EN_0_1>>),
                             SvdRegister(D_STM32F411, None, N_TIM1, None, <<F_EN_0_1>>)>>)[1],
     deduplicate_registers(<<SvdRegister(D_STM32F407, None, N_TIM1, None, <<F_EN_0_1>>),
                             SvdRegister(D_STM32F411, None, N_TIM1, None, <<F_EN_0_1>>)>>)[1],
     deduplicate_registers(<<SvdRegister(D_STM32F407, None, N_TIM1, None, <<F_EN_0_1>>),
                             SvdRegister(D_STM32F411, None, N_TIM10, None, <<F_EN_0_1>>)>>)[1]}

\* chunker.py:498: device_chunks = create_device_summary_chunks(registers)
CreateDeviceSummaries ==
    /\ bpc = "collecting"
    /\ batch /= <<>>
    /\ chunks' = create_device_summary_chunks(batch)
    /\ bpc' = "summarised"
    /\ UNCHANGED <<batch, groups, merged>>

InitV == InitBatch /\ SearchIdle /\ QueryIdle /\ IndexIdle

NextV ==
    \/ \E r \in DeviceUniverse :
          AddRegister(r, MaxBatch) /\ UNCHANGED <<searchVars, queryVars, indexVars>>
    \/ CreateDeviceSummaries /\ UNCHANGED <<searchVars, queryVars, indexVars>>

SpecDevices == InitV /\ [][NextV]_vars

\* the names that stand for no device
PlaceholderNames == {<<>>, None, D_None}

\* the device names found in a register: its devices list, or its device
\* field when the list is absent or empty
NamesFound(reg) ==
    IF reg.devices /= None /\ Len(reg.devices) > 0
      THEN {reg.devices[j] : j \in 1..Len(reg.devices)}
      ELSE {reg.device}

\* C18: create_device_summary_chunks emits no chunk whose device is the empty
\* string, None or the word "None", and exactly one device_summary chunk
\* for every other device name found in the registers.
C18_DeviceSummaries ==
    bpc = "summarised" =>
       LET found == UNION {NamesFound(batch[i]) : i \in 1..Len(batch)} \ PlaceholderNames
       IN  /\ \A k \in 1..Len(chunks) :
                /\ chunks[k].metadata.type = "device_summary"
                /\ chunks[k].metadata.device \notin PlaceholderNames
                /\ chunks[k].metadata.device \in found
           /\ \A d \in found :
                Cardinality({k \in 1..Len(chunks) : chunks[k].metadata.device = d}) = 1

\* a register without a device name, a merged record whose devices list
\* holds "", "None" and STM32F411, and a register of STM32F407: two chunks
C18_Witness ==
    /\ bpc = "summarised"
    /\ \E i \in 1..Len(batch) : batch[i].device = <<>>
    /\ \E i \in 1..Len(batch) : batch[i].devices = <<<<>>, D_None, D_STM32F411>>
    /\ \E i \in 1..Len(batch) : batch[i].device = D_STM32F407
    /\ {chunks[k].metadata.device : k \in 1..Len(chunks)} = {D_STM32F407, D_STM32F411}
    /\ Len(chunks) = 2

----------------------------------------------------------------------------
(* src/indexer/chunker.py: chunk ids *)

\* C19: the chunks one create_chunks call returns have pairwise distinct
\* ids; two generated ids that collide are told apart by a suffix.
C19_DistinctIds ==
    bpc = "chunked" =>
       \A i, j \in 1..Len(chunks) : i /= j => chunks[i].id /= chunks[j].id

----------------------------------------------------------------------------
(* src/indexer/chunker.py, src/indexer/models.py: registers that were never
   merged *)

\* the summary chunk of the n-th peripheral group: create_chunks emits one
\* per group, in the order of the groups (chunker.py:474-478)
SummaryOfGroup(n) ==
    CHOOSE k \in ChunksOfType("peripheral_summary") :
       Cardinality({j \in ChunksOfType("peripheral_summary") : j < k}) = n - 1

\* C20: for a register whose devices and peripheral_instances were left at
\* their defaults, the peripheral summary chunk's metadata has devices equal
\* to [device] and peripheral_instances equal to [peripheral].
C20_DefaultsMeanSingleDevice ==
    bpc = "chunked" =>
       LET peripheral_groups == _group_registers_by_peripheral(batch)
       IN  \A n \in 1..Len(peripheral_groups) :
              LET rep == peripheral_groups[n][2][1]
                  summary == chunks[SummaryOfGroup(n)]
              IN  (rep.devices = None /\ rep.peripheral_instances = None) =>
                     /\ summary.metadata.devices /= None
                     /\ summary.metadata.devices = <<rep.device>>
                     /\ summary.metadata.peripheral_instances /= None
                     /\ summary.metadata.peripheral_instances = <<rep.peripheral>>

----------------------------------------------------------------------------
(* src/indexer/chunker.py: a peripheral group whose chunks cannot be built *)

\* the registers the chunk builder is run on when some are malformed: two
\* sound registers, a register of TIM1 and one of USART1 without a name, and
\* a register whose peripheral has no name
FailureUniverse ==
    {SvdRegister(D_STM32F407, None, N_TIM1, None, <<F_EN_0_1>>),
     [SvdRegister(D_STM32F411, None, N_USART1, None, <<F_EN_0_1>>) EXCEPT !.register = N_DR],
     [SvdRegister(D_STM32F407, None, N_TIM1, None, <<F_EN_0_1>>) EXCEPT !.register = None],
     [SvdRegister(D_STM32F411, None, N_USART1, None, <<F_EN_0_1>>) EXCEPT !.register = None],
     SvdRegister(D_STM32F411, None, None, None, <<F_EN_0_1>>)}

InitX == InitBatch /\ SearchIdle /\ QueryIdle /\ IndexIdle

NextX ==
    \/ \E r \in FailureUniverse :
          AddRegister(r, MaxBatch) /\ UNCHANGED <<searchVars, queryVars, indexVars>>
    \/ CreateChunks /\ UNCHANGED <<searchVars, queryVars, indexVars>>

SpecFailure == InitX /\ [][NextX]_vars

\* the peripheral groups of the batch whose chunk construction raised
FailedGroups ==
    LET peripheral_groups == _group_registers_by_peripheral(batch)
    IN  {n \in 1..Len(peripheral_groups) : SummaryRaises(peripheral_groups[n][2])}

\* the device names the batch holds that are no placeholders
DevicesToSummarise ==
    UNION {NamesFound(batch[i]) : i \in 1..Len(batch)} \ PlaceholderNames

\* C21: when the chunk construction of a peripheral group fails,
\* create_chunks still returns, and the result holds the summary of every
\* other peripheral group and the device summary of every device.
C21_GroupFailureNotFatal ==
    (bpc \in {"chunked", "raised"} /\ FailedGroups /= {}) =>
       LET peripheral_groups == _group_registers_by_peripheral(batch)
       IN  /\ bpc = "chunked"
           /\ \A n \in 1..Len(peripheral_groups) \ FailedGroups :
                 \E k \in ChunksOfType("peripheral_summary") :
                    /\ chunks[k].metadata.device = peripheral_groups[n][2][1].device
                    /\ chunks[k].metadata.peripheral = peripheral_groups[n][2][1].peripheral
                    /\ chunks[k].metadata.register_count = Len(peripheral_groups[n][2])
           /\ \A d \in DevicesToSummarise :
                 \E k \in ChunksOfType("device_summary") : chunks[k].metadata.device = d

----------------------------------------------------------------------------
(* src/retrieval/hybrid_retriever.py: the length of the result of search *)

\* C22: search returns at most top_k results; without the reranker it
\* returns exactly the first min(top_k, number of hits of the store) entries
\* of the boosted, sorted list; a store response without hits gives the
\* empty list.
C22_AtMostTopK ==
    pc = "done" =>
       /\ Len(returned) <= call.top_k
       /\ ~use_reranker =>
             /\ Len(returned) = (IF call.top_k < Len(base) THEN call.top_k ELSE Len(base))
             /\ \A i \in 1..Len(returned) : returned[i] = boosted[i]
             /\ boosted = post_process(base, call.qi)
       /\ base = <<>> => returned = <<>>

\* without the reranker the store had fewer hits than top_k, and all of them
\* are returned
C22_Witness ==
    /\ pc = "done"
    /\ ~use_reranker
    /\ call.top_k = MaxTopK
    /\ Len(base) = MaxTopK - 1
    /\ Len(returned) = Len(base)
    /\ returned = boosted

----------------------------------------------------------------------------
(* src/indexer/deduplicator.py: exceptions of deduplicate_registers *)

\* C23: deduplicate_registers raises for no register list; for the empty
\* list it returns the empty list, and registers without a peripheral group
\* are grouped by the first four characters of the peripheral name.
C23_NeverRaises ==
    bpc \in {"deduplicated", "raised"} =>
       /\ bpc = "deduplicated"
       /\ batch = <<>> => merged = <<>>

----------------------------------------------------------------------------
(* src/retrieval/hybrid_retriever.py: post_process keeps the hits *)

\* the metadata of a hit without its debug trace
WithoutDebug(metadata) == [k \in DOMAIN metadata \ {"_debug"} |-> metadata[k]]

\* hit h is hit b with another score and a debug trace
SameButScore(b, h) ==
    /\ h.source_id = b.source_id
    /\ h.type = b.type
    /\ h.peripheral = b.peripheral
    /\ h.register = b.register
    /\ h.address = b.address
    /\ WithoutDebug(h.metadata) = WithoutDebug(b.metadata)

\* C24: post_process returns a permutation of its input: as many hits, each
\* input hit once with all its fields but score and metadata._debug, in
\* descending adjusted score, equal scores in ascending source id with a
\* missing id read as the empty string.
C24_PostProcessPermutes ==
    pc = "boosted" =>
       /\ Len(boosted) = Len(base)
       /\ \A i \in 1..Len(base) :
             Cardinality({k \in 1..Len(boosted) : SameButScore(base[i], boosted[k])}) = 1
       /\ \A k \in 1..Len(boosted) : "_debug" \in DOMAIN boosted[k].metadata
       /\ OrderedByScoreAndId(boosted)

\* two hits of equal fused score, the second boosted past the first
C24_Witness ==
    /\ pc = "boosted"
    /\ Len(base) = 2
    /\ base[1].score = base[2].score
    /\ SameButScore(base[2], boosted[1])
    /\ SameButScore(base[1], boosted[2])
    /\ boosted[1].score > boosted[2].score

----------------------------------------------------------------------------
(* src/retrieval/hybrid_retriever.py: the debug trace explains the score *)

\* the three rules of post_process
BoostRules == {"peripheral_match", "register_match", "peripheral_penalty"}

\* the factor of one rule on a score
ApplyRule(s, rule) ==
    CASE rule = "peripheral_match" -> Times1_5(s)
      [] rule = "register_match" -> Times1_4(s)
      [] rule = "peripheral_penalty" -> Times0_5(s)

\* the rules whose flag is set, applied to a score one after the other in
\* the given order
RECURSIVE ApplyRules(_, _, _)
ApplyRules(s, order, flags) ==
    IF order = <<>> THEN s
    ELSE ApplyRules(IF flags[order[1]] THEN ApplyRule(s, order[1]) ELSE s,
                    Tail(order), flags)

\* the six orders of the three rules
RuleOrders ==
    {order \in [1..3 -> BoostRules] : \A i, j \in 1..3 : i /= j => order[i] /= order[j]}

\* C25: after post_process the debug trace of every hit explains its score:
\* post_boost_score is the new score, and it is qdrant_hybrid_score times
\* 1.5, 1.4 and 0.5 for the flags that are set and nothing else, in
\* whichever order the three factors are applied.
C25_TraceExplainsScore ==
    \A i \in 1..Len(boosted) :
       LET h == boosted[i]
           debug == h.metadata._debug
       IN  /\ debug.post_boost_score = h.score
           /\ debug.qdrant_hybrid_score = BaseOf(h).score
           /\ \A order \in RuleOrders :
                 h.score = ApplyRules(debug.qdrant_hybrid_score, order, debug.applied_boosts)

\* a hit with the peripheral and the register boost: 1.5 and 1.4 in either
\* order give its score
C25_Witness ==
    \E i \in 1..Len(boosted) :
       /\ Flags(boosted[i]).peripheral_match
       /\ Flags(boosted[i]).register_match
       /\ ~Flags(boosted[i]).peripheral_penalty
       /\ boosted[i].metadata._debug.post_boost_score
             = Times1_4(Times1_5(boosted[i].metadata._debug.qdrant_hybrid_score))
       /\ boosted[i].score = Times1_5(Times1_4(BaseOf(boosted[i]).score))
       /\ boosted[i].score > BaseOf(boosted[i]).score

----------------------------------------------------------------------------
(* src/indexer/deduplicator.py: one record per dedup key *)

\* the dedup key as a value: the peripheral group or, without one, the first
\* four characters of the peripheral name; the register name; the fields
\* sorted by name as (name, offset, width)
KeyOf(r) ==
    <<IF r.peripheral_group /= None /\ r.peripheral_group /= <<>>
        THEN r.peripheral_group ELSE SubSeq(r.peripheral, 1, 4),
      r.register, SignatureOf(r)>>

\* the indices of the registers of the batch that are the first with their key
FirstOfKey ==
    LET IsFirst(i) == \A j \in 1..(i - 1) : KeyOf(batch[j]) /= KeyOf(batch[i])
    IN  SelectSeq([i \in 1..Len(batch) |-> i], IsFirst)

\* C26: deduplicate_registers returns one record per distinct dedup key in
\* the order the keys first occur; a register whose key occurs once comes
\* back unchanged, without aggregation attributes; two registers without a
\* group whose peripheral names share their first four characters, as TIM1
\* and TIM10, with the same register name and fields, are one record.
C26_OneRecordPerKey ==
    bpc = "deduplicated" =>
       /\ Len(merged) = Len(FirstOfKey)
       /\ \A k \in 1..Len(FirstOfKey) :
             LET first == batch[FirstOfKey[k]]
                 occurrences == {j \in 1..Len(batch) : KeyOf(batch[j]) = KeyOf(first)}
             IN  /\ merged[k].register = first.register
                 /\ merged[k].fields = first.fields
                 /\ merged[k].full_address = first.full_address
                 /\ Cardinality(occurrences) = 1 =>
                       /\ merged[k] = first
                       /\ merged[k].devices = None
                       /\ merged[k].peripheral_instances = None
                       /\ merged[k].address_map = None
                 /\ (\E i, j \in occurrences :
                        /\ batch[i].peripheral = N_TIM1
                        /\ batch[j].peripheral = N_TIM10
                        /\ batch[i].peripheral_group = None
                        /\ batch[j].peripheral_group = None) =>
                       /\ merged[k].peripheral = N_TIM1
                       /\ N_TIM1 \in Range(merged[k].peripheral_instances)
                       /\ N_TIM10 \in Range(merged[k].peripheral_instances)
       /\ \A i, j \in 1..Len(batch) :
             (/\ batch[i].peripheral = N_TIM1
              /\ batch[j].peripheral = N_TIM10
              /\ batch[i].peripheral_group = None
              /\ batch[j].peripheral_group = None
              /\ batch[i].register = batch[j].register
              /\ SignatureOf(batch[i]) = SignatureOf(batch[j])) =>
                KeyOf(batch[i]) = KeyOf(batch[j])

\* TIM10 and TIM1 of one device with the same fields became one record named
\* TIM1, and a register with another layout came back as it was
C26_Witness ==
    /\ bpc = "deduplicated"
    /\ Len(batch) = 3
    /\ batch[1].peripheral = N_TIM10
    /\ batch[2].peripheral = N_TIM1
    /\ batch[1].device = batch[2].device
    /\ batch[1].peripheral_group = None
    /\ batch[2].peripheral_group = None
    /\ Len(merged) = 2
    /\ merged[1].peripheral = N_TIM1
    /\ merged[1].peripheral_instances = <<N_TIM1, N_TIM10>>
    /\ merged[2] = batch[3]
    /\ merged[2].devices = None

----------------------------------------------------------------------------
(* src/retrieval/hybrid_retriever.py: the trigger table and the boost *)

\* the family tags of the table rows whose trigger token is in the query
TriggeredTags ==
    UNION {PERIPH_TRIGGERS[t].fams :
             t \in {u \in 1..Len(PERIPH_TRIGGERS) :
                      PERIPH_TRIGGERS[u].trigger \in Range(call.qi.tokens)}}

\* C27: when the query contains a trigger token of the table, every hit whose
\* peripheral name starts with a family tag of that token gets the factor
\* 1.5 and peripheral_match = true.
C27_TriggeredFamilyBoosted ==
    \A i \in 1..Len(boosted) :
       LET h == boosted[i]
       IN  (\E tag \in TriggeredTags : StartsWith(PeripheralOf(h), tag)) =>
              /\ Flags(h).peripheral_match
              /\ h.score = Adjusted(BaseOf(h).score, TRUE,
                                    Flags(h).register_match, Flags(h).peripheral_penalty)

\* the same for the tags that _periph_family knows
C27_KnownFamilyBoosted ==
    \A i \in 1..Len(boosted) :
       LET h == boosted[i]
       IN  (\E tag \in TriggeredTags \cap Range(FAMILY_PREFIXES) :
               StartsWith(PeripheralOf(h), tag)) =>
              Flags(h).peripheral_match

\* query token "dma", hit DMA1 left without the boost
C27_DmaNotBoosted ==
    \E i \in 1..Len(boosted) :
       /\ <<"d","m","a">> \in Range(call.qi.tokens)
       /\ boosted[i].peripheral = <<"D","M","A","1">>
       /\ ~Flags(boosted[i]).peripheral_match
       /\ boosted[i].score = Adjusted(BaseOf(boosted[i]).score, FALSE,
                                      Flags(boosted[i]).register_match, FALSE)

----------------------------------------------------------------------------
(* preprocess_query and post_process together: boost against penalty *)

\* peripheral names of hits put before post_process
ProbePeripherals ==
    {P_USB, <<"u","s","b">>, <<"U","S","B","_","O","T","G","_","F","S">>,
     P_OTG_FS, P_OTG_HS, P_OTG, P_STK, P_SYSTICK, P_WWDG, P_IWDG,
     <<"D","M","A">>, <<"D","M","A","1">>, <<"T","I","M","1">>,
     <<"I","2","C","1">>, <<"G","P","I","O","A">>, <<"G","P","I","O","A"," ","S","T","K">>}

\* the hit the store returns for a register of that peripheral
ProbeHit(peripheral) ==
    _to_result(ScoreOne \div 2,
               [source_id |-> <<"p">>, type |-> "register", peripheral |-> peripheral,
                register |-> <<"C","R">>, address |-> A_0x40])

\* the flags post_process sets on that hit for the preprocessed query
ProbeFlags(peripheral) ==
    BoostHit(ProbeHit(peripheral), qinfo).metadata._debug.applied_boosts

\* C28: post_process run with the QueryInfo of preprocess_query never sets
\* both peripheral_match and peripheral_penalty on one hit.
C28_BoostExcludesPenalty ==
    qpc = "done" =>
       \A p \in ProbePeripherals :
          ~(ProbeFlags(p).peripheral_match /\ ProbeFlags(p).peripheral_penalty)

\* a query with "dma" and "gpio": GPIOA is boosted, USB and OTG_FS penalised
C28_Witness ==
    /\ qpc = "done"
    /\ T_dma \in Range(qinfo.tokens)
    /\ T_gpio \in Range(qinfo.tokens)
    /\ ProbeFlags(<<"G","P","I","O","A">>).peripheral_match
    /\ ~ProbeFlags(<<"G","P","I","O","A">>).peripheral_penalty
    /\ ProbeFlags(P_USB).peripheral_penalty
    /\ ~ProbeFlags(P_USB).peripheral_match
    /\ ProbeFlags(P_OTG_FS).peripheral_penalty

----------------------------------------------------------------------------
(* src/indexer/deduplicator.py: deduplicating a deduplicated list *)

\* C29: deduplicate_registers applied to its own output of a non-empty list
\* returns the same records in the same order, with the same device,
\* peripheral, devices, peripheral_instances and address_map; the keys of
\* the representatives are the keys of their groups.
C29_Idempotent ==
    bpc = "rededuplicated" =>
       /\ Len(merged) = Len(batch)
       /\ \A k \in 1..Len(batch) :
             /\ merged[k].peripheral = batch[k].peripheral
             /\ merged[k].device = batch[k].device
             /\ merged[k] = batch[k]
       /\ \A k \in 1..Len(groups) : Len(groups[k]) = 1
       /\ \A i, j \in 1..Len(batch) :
             i /= j => _make_dedup_key(batch[i]) /= _make_dedup_key(batch[j])

\* a representative whose peripheral and device were generalized, next to a
\* register with a group, went through the second pass
C29_Witness ==
    /\ bpc = "rededuplicated"
    /\ Len(batch) = 2
    /\ batch[1].peripheral = N_TIM1
    /\ batch[1].peripheral_group = None
    /\ batch[1].peripheral_instances = <<N_TIM1, N_TIM10>>
    /\ Len(batch[1].devices) = 2
    /\ batch[2].peripheral_group = N_TIM
    /\ batch[2].register = batch[1].register
    /\ SignatureOf(batch[2]) = SignatureOf(batch[1])
    /\ merged = batch

----------------------------------------------------------------------------
(* src/indexer/chunker.py: the peripherals a device summary lists *)

\* the register shows that the device has the peripheral instance: by a key
\* "device/peripheral" of its address map when it carries aggregation data,
\* by its own device and peripheral otherwise
HasInstance(device, periph, reg) ==
    IF reg.address_map /= None
      THEN \E j \in 1..Len(reg.address_map) :
              reg.address_map[j][1] = device \o <<"/">> \o periph
      ELSE reg.device = device /\ reg.peripheral = periph

\* C30: every peripheral a device summary lists for device D is an instance
\* that D has in the input; an instance that only another merged device has
\* is not listed under D.
C30_ListedPeripheralsBelong ==
    bpc = "summarised" =>
       \A k \in 1..Len(chunks) :
          \A j \in 1..Len(chunks[k].metadata.peripherals) :
             \E i \in 1..Len(batch) :
                HasInstance(chunks[k].metadata.device,
                            chunks[k].metadata.peripherals[j], batch[i])

\* the same over inputs whose merged records have one peripheral instance
C30_SingleInstanceBelongs ==
    (/\ bpc = "summarised"
     /\ \A i \in 1..Len(batch) :
           batch[i].peripheral_instances /= None => Len(batch[i].peripheral_instances) = 1) =>
       \A k \in 1..Len(chunks) :
          \A j \in 1..Len(chunks[k].metadata.peripherals) :
             \E i \in 1..Len(batch) :
                HasInstance(chunks[k].metadata.device,
                            chunks[k].metadata.peripherals[j], batch[i])

\* the record merged from TIM1 of STM32F407 and TIM10 of STM32F411 alone:
\* the summary of STM32F407 lists TIM10
C30_ForeignInstanceListed ==
    /\ bpc = "summarised"
    /\ Len(batch) = 1
    /\ batch[1].address_map = << <<D_STM32F407 \o <<"/">> \o N_TIM1, batch[1].full_address>>,
                                 batch[1].address_map[2] >>
    /\ batch[1].address_map[2][1] = D_STM32F411 \o <<"/">> \o N_TIM10
    /\ \E k \in 1..Len(chunks) :
          /\ chunks[k].metadata.device = D_STM32F407
          /\ chunks[k].metadata.peripherals = <<N_TIM1, N_TIM10>>

====
